---------------------------- MODULE Spec2Model ----------------------------
(***************************************************************************)
(* A model of tsqgen, a typed PostgreSQL query builder: the quoting        *)
(* primitives (quote.ts), the token stream and its renderer unlex          *)
(* (serialize.ts), the expression AST and the parameter binder             *)
(* (expression.ts) and the subquery builder (select.ts).                   *)
(*                                                                         *)
(* Host strings are TLA+ strings; Len, SubSeq and \o are the only string   *)
(* operations used.  An operation that can throw returns a record          *)
(* [ok, text] (or [ok, tokens]); ok = FALSE is the thrown Error.           *)
(***************************************************************************)
EXTENDS Integers, Sequences, FiniteSets, TLC

VARIABLES
    pc,         \* position of the host program: what it has built or called last
    tokens,     \* Token[]: the token list in hand (host-assembled or serialized)
    sql,        \* outcome of the last unlex / quote call: [ok, text]
    op,         \* the operator string handed to quote.operator
    expr,       \* the expression node in hand
    types,      \* the names declared to $(types), in declaration order
    params,     \* the handle $(types) returned: [keys, exprs]
    picked,     \* the declared name whose expression the host took from params
    record,     \* the host record handed to the packer: <<[key, value], ...>>
    packed,     \* the packer's result: [ok, values]
    query,      \* SubqueryImpl: [from, tuple, state]
    calls,      \* names of the builder methods the host has called, in call order
    static,     \* the static type the compiler gives the query in hand: [stage, allowLock]
    heap,       \* the objects a builder call can reach: state objects and arrays
    held,       \* the queries the host keeps references to: <<[from, tuple, state], ...>>
    fromItem,   \* the From the host is joining: a Table or a join node
    tuples      \* the target objects behind a tuple proxy: what each name has been given

vars == <<pc, tokens, sql, op, expr, types, params, picked, record, packed, query, calls, static, heap, held, fromItem, tuples>>

--------------------------------------------------------------------------
(* Bounds *)

MaxIdentLen == 3     \* longest identifier value drawn
MaxLitLen == 4       \* longest string literal drawn
MaxOpLen == 3        \* longest operator string drawn
MaxTokens == 3       \* longest host-assembled token list
MaxCalls == 2        \* most builder methods called on one query after select

--------------------------------------------------------------------------
(* Strings *)

CharAt(s, i) == SubSeq(s, i, i)
Rest(s) == SubSeq(s, 2, Len(s))

LowerLetters == "abcdefghijklmnopqrstuvwxyz"
UpperLetters == "ABCDEFGHIJKLMNOPQRSTUVWXYZ"
Digits == "0123456789"

Contains(s, c) == \E i \in 1..Len(s) : CharAt(s, i) = c

\* true iff sub occurs in s as a contiguous substring
HasSubstring(s, sub) ==
    \E i \in 1..(Len(s) - Len(sub) + 1) : SubSeq(s, i, i + Len(sub) - 1) = sub

\* String.prototype.toUpperCase on one UTF-16 unit (ASCII range)
UpperChar(c) ==
    IF Contains(LowerLetters, c)
    THEN CharAt(UpperLetters, CHOOSE i \in 1..Len(LowerLetters) : CharAt(LowerLetters, i) = c)
    ELSE c

RECURSIVE toUpperCase(_)
toUpperCase(s) ==
    IF s = "" THEN "" ELSE UpperChar(CharAt(s, 1)) \o toUpperCase(Rest(s))

\* s.replace(/c/g, rep): every occurrence of the one-character pattern c
RECURSIVE replaceAll(_, _, _)
replaceAll(s, c, rep) ==
    IF s = "" THEN ""
    ELSE (IF CharAt(s, 1) = c THEN rep ELSE CharAt(s, 1)) \o replaceAll(Rest(s), c, rep)

\* s.replace(/c/, rep): the first occurrence only
RECURSIVE replaceFirst(_, _, _)
replaceFirst(s, c, rep) ==
    IF s = "" THEN ""
    ELSE IF CharAt(s, 1) = c THEN rep \o Rest(s)
    ELSE CharAt(s, 1) \o replaceFirst(Rest(s), c, rep)

\* Number.prototype.toString for a non-negative integer
RECURSIVE numberToString(_)
numberToString(n) ==
    IF n < 10 THEN CharAt(Digits, n + 1)
    ELSE numberToString(n \div 10) \o CharAt(Digits, (n % 10) + 1)

\* all strings over the characters of alphabet, of length at most n
RECURSIVE StringsUpTo(_, _)
StringsUpTo(alphabet, n) ==
    IF n = 0 THEN {""}
    ELSE LET shorter == StringsUpTo(alphabet, n - 1)
         IN  shorter \cup {s \o CharAt(alphabet, i) : s \in shorter, i \in 1..Len(alphabet)}

Thrown(msg) == [ok |-> FALSE, text |-> msg]
Returned(text) == [ok |-> TRUE, text |-> text]
NoResult == [ok |-> FALSE, text |-> "<not called>"]

--------------------------------------------------------------------------
(* quote.ts *)

reservedKeywords ==
    {"ABSENT", "ALL", "AND", "ANY", "ARRAY", "AS", "ASC", "BETWEEN", "CAST",
     "CROSS", "JOIN", "CUBE", "DESC", "DISTINCT", "EXCEPT", "FILTER", "FOR",
     "FROM", "FULL", "GROUP", "BY", "HAVING", "INNER", "INTERSECT",
     "LATERAL", "LEFT", "LIMIT", "NULL", "OFFSET", "ON", "ORDER", "OVER",
     "RIGHT", "SELECT", "UNION", "UNIQUE", "UPDATE", "USING", "WHERE", "WITH"}

\* /^[a-z_][a-z0-9_]*$/
MatchesLowerIdent(s) ==
    /\ Len(s) >= 1
    /\ Contains(LowerLetters \o "_", CharAt(s, 1))
    /\ \A i \in 2..Len(s) : Contains(LowerLetters \o Digits \o "_", CharAt(s, i))

DoubleQuoted(ident) == "\"" \o replaceAll(ident, "\"", "\"\"") \o "\""

quoteIdentifier(ident, forceQuote) ==
    IF forceQuote THEN DoubleQuoted(ident)
    ELSE IF toUpperCase(ident) \in reservedKeywords THEN DoubleQuoted(ident)
    ELSE IF MatchesLowerIdent(ident) THEN ident
    ELSE DoubleQuoted(ident)

quoteStringFirstOnly(lit) == "'" \o replaceFirst(lit, "'", "''") \o "'"

quoteString(lit) == "'" \o replaceAll(lit, "'", "''") \o "'"

validOperators ==
    {"AND", "OR", "NOT",
     "LIKE", "NOT LIKE", "ILIKE", "NOT ILIKE", "SIMILAR TO", "NOT SIMILAR TO",
     "IS NULL", "IS NOT NULL",
     "IN", "NOT IN", "EXISTS",
     "IS DISTINCT FROM", "IS NOT DISTINCT FROM",
     "COLLATE"}

\* A TLA+ string cannot hold the backquote character; "\f" stands for it.
Backquote == "\f"

\* the character class [+\-*/<>=~!@#%^&|?] and the backquote
OperatorChars == "+-*/<>=~!@#%^&|?" \o Backquote

\* /[...]/.test(o) for that class: some character of o is in the class
HasOperatorChar(o) == \E i \in 1..Len(o) : Contains(OperatorChars, CharAt(o, i))

\* /--|\/\*/.test(o)
HasCommentStart(o) == HasSubstring(o, "--") \/ HasSubstring(o, "/*")

quoteOperator(o) ==
    IF o \in validOperators THEN Returned(o)
    ELSE IF ~HasOperatorChar(o) \/ HasCommentStart(o) THEN Thrown("Invalid operator: " \o o)
    ELSE Returned(o)

--------------------------------------------------------------------------
(* serialize.ts: tokens *)

\* Every token is a record of one shape; the fields a token type does not
\* have in the source hold "" / FALSE.  valueType is typeof value of a Literal.
Token(type, value, forceQuote, valueType, tableName, columnName) ==
    [type |-> type, value |-> value, forceQuote |-> forceQuote,
     valueType |-> valueType, tableName |-> tableName, columnName |-> columnName]

keyWord(value) == Token("KeyWord", value, FALSE, "", "", "")
identifier(value, forceQuote) == Token("Identifier", value, forceQuote, "", "", "")
\* a Literal holds string | number | boolean | null; value is the text that
\* '' + value / value.toString() yields, valueType says which it was
literal(value, valueType) == Token("Literal", value, FALSE, valueType, "", "")
operator(value) == Token("Operator", value, FALSE, "", "", "")
specialCharacter(value) == Token("SpecialCharacter", value, FALSE, "", "", "")
columnReference(tableName, columnName) ==
    Token("ColumnReference", "", FALSE, "", tableName, columnName)

SpecialCharacters == {"(", ")", "[", "]", "*", ",", ".", ":"}

\* /^[a-zA-Z_][a-zA-Z0-9_$]*$/
MatchesIdent(s) ==
    /\ Len(s) >= 1
    /\ Contains(LowerLetters \o UpperLetters \o "_", CharAt(s, 1))
    /\ \A i \in 2..Len(s) :
          Contains(LowerLetters \o UpperLetters \o Digits \o "_$", CharAt(s, i))

isReservedKeyword(ident) ==
    ident \in {"ABSENT", "ALL", "AND", "ANY", "ARRAY", "AS", "ASC", "BETWEEN", "CAST",
               "CROSS", "JOIN", "CUBE", "DESC", "DISTINCT", "EXCEPT", "FILTER", "FOR",
               "FROM", "FULL", "GROUP", "BY", "HAVING", "INNER", "INTERSECT", "JOIN",
               "LATERAL", "LEFT", "LIMIT", "NULL", "OFFSET", "ON", "ORDER", "OVER",
               "RIGHT", "SELECT", "UNION", "UNIQUE", "UPDATE", "USING", "WHERE", "WITH"}

needsQuotingNoKeywords(ident) == ~MatchesIdent(ident)

needsQuoting(ident) ==
    ~MatchesIdent(ident) \/ isReservedKeyword(toUpperCase(ident))

NonFinite == {"Infinity", "-Infinity", "NaN"}

unlex1(token) ==
    CASE token.type = "KeyWord" -> Returned(token.value)
      [] token.type = "Identifier" ->
            IF token.forceQuote THEN Returned(quoteIdentifier(token.value, FALSE))
            ELSE IF needsQuoting(token.value)
                 THEN Returned(quoteIdentifier(token.value, FALSE))
                 ELSE Returned(token.value)
      [] token.type = "Literal" ->
            IF token.valueType = "string" THEN Returned(quoteString(token.value))
            ELSE IF token.valueType \in {"null", "boolean"} THEN Returned(token.value)
            ELSE IF token.value \notin NonFinite THEN Returned(token.value)
            ELSE Returned(quoteString(token.value))
      [] token.type = "Operator" -> quoteOperator(token.value)
      [] token.type = "SpecialCharacter" -> Returned(token.value)
      [] token.type = "ColumnReference" ->
            Returned(quoteIdentifier(token.tableName, FALSE) \o "."
                     \o quoteIdentifier(token.columnName, FALSE))

\* the condition of unlex that decides the space after toks[index]
needsSpaceAfter(toks, index) ==
    /\ index < Len(toks)
    /\ LET token == toks[index]
           nextToken == toks[index + 1]
       IN ~ \/ (token.type = "SpecialCharacter" /\ token.value \in {"(", "["})
            \/ (token.type = "Identifier" /\ nextToken.type = "SpecialCharacter"
                    /\ nextToken.value = "(")
            \/ (token.type = "KeyWord" /\ token.value \in {"CAST", "ARRAY", "ANY", "ALL"})
            \/ (nextToken.type = "SpecialCharacter" /\ nextToken.value \in {")", "]"})
            \/ (nextToken.type = "SpecialCharacter" /\ nextToken.value = ",")

\* tokens.reduce(...): left to right from index with accumulator acc; the
\* first unlex1 that throws ends the whole call
RECURSIVE unlexFrom(_, _, _)
unlexFrom(toks, index, acc) ==
    IF index > Len(toks) THEN Returned(acc)
    ELSE LET result == unlex1(toks[index])
         IN  IF ~result.ok THEN result
             ELSE unlexFrom(toks, index + 1,
                            acc \o result.text
                                \o (IF needsSpaceAfter(toks, index) THEN " " ELSE ""))

unlex(toks) == unlexFrom(toks, 1, "")

\* commaSeparate(args: Token[][])
RECURSIVE commaSeparate(_)
commaSeparate(args) ==
    IF Len(args) = 0 THEN <<>>
    ELSE IF Len(args) = 1 THEN args[1]
    ELSE commaSeparate(SubSeq(args, 1, Len(args) - 1))
            \o <<specialCharacter(",")>> \o args[Len(args)]

--------------------------------------------------------------------------
(* Values the unused variables hold *)

NoExpr == [node |-> "none"]
NoQuery == [tuple |-> <<>>]
NoPacked == [ok |-> FALSE, values |-> <<>>]

IdleLex == tokens = <<>> /\ sql = NoResult
IdleOp == op = ""
IdleExpr == expr = NoExpr
NoParams == [keys |-> <<>>]
IdleParams ==
    types = <<>> /\ params = NoParams /\ picked = "" /\ record = <<>> /\ packed = NoPacked
NoType == [stage |-> "none", allowLock |-> FALSE]
NoFrom == [kind |-> "none"]
IdleQuery ==
    /\ query = NoQuery /\ calls = <<>> /\ static = NoType /\ heap = <<>> /\ held = <<>>
    /\ fromItem = NoFrom
    /\ tuples = <<>>

--------------------------------------------------------------------------
(* The host renders the token list in hand: unlex(tokens) *)

Unlex ==
    /\ pc = "tokens"
    /\ sql' = unlex(tokens)
    /\ pc' = "rendered"
    /\ UNCHANGED <<tokens, op, expr, types, params, picked, record, packed, query, calls, static, heap, held, fromItem, tuples>>

--------------------------------------------------------------------------
(* Identifier tokens: unlex([identifier(value, forceQuote)]) *)

\* letters of both cases (spelling AS, as, As), a digit, _, $, a space and
\* a double quote
IdentAlphabet == "asAS1_$ \""

IdentValues == StringsUpTo(IdentAlphabet, MaxIdentLen)

InitIdentifier ==
    /\ pc = "tokens"
    /\ \E value \in IdentValues, forceQuote \in BOOLEAN :
          tokens = <<identifier(value, forceQuote)>>
    /\ sql = NoResult
    /\ IdleOp /\ IdleExpr /\ IdleParams /\ IdleQuery

NextIdentifier == Unlex

SpecIdentifier == InitIdentifier /\ [][NextIdentifier]_vars

\* the identifier rule as the specification words it
IsLetterOrUnderscore(c) == Contains("abcdefghijklmnopqrstuvwxyzABCDEFGHIJKLMNOPQRSTUVWXYZ_", c)
IsIdentTailChar(c) == IsLetterOrUnderscore(c) \/ Contains("0123456789$", c)
IsPlainWord(s) ==
    /\ s # ""
    /\ IsLetterOrUnderscore(CharAt(s, 1))
    /\ \A i \in 2..Len(s) : IsIdentTailChar(CharAt(s, i))

\* out is s with every occurrence of the character q doubled
IsDoublingOf(out, s, q) ==
    LET before(i) == Cardinality({j \in 1..(i - 1) : CharAt(s, j) = q})
    IN  /\ Len(out) = Len(s) + before(Len(s) + 1)
        /\ \A i \in 1..Len(s) :
              /\ CharAt(out, i + before(i)) = CharAt(s, i)
              /\ CharAt(s, i) = q => CharAt(out, i + before(i) + 1) = q

\* text is s wrapped in the delimiter q with every internal q doubled
IsQuotedForm(text, s, q) ==
    /\ Len(text) >= 2
    /\ CharAt(text, 1) = q
    /\ CharAt(text, Len(text)) = q
    /\ IsDoublingOf(SubSeq(text, 2, Len(text) - 1), s, q)

RenderedIdentifier == pc = "rendered" /\ Len(tokens) = 1 /\ tokens[1].type = "Identifier"

\* C3: an Identifier token that is not force-quoted renders bare exactly when
\* its value matches ^[A-Za-z_][A-Za-z0-9_$]*$ and its upper-cased form is not
\* a reserved word; otherwise it renders in double quotes with every internal
\* double quote doubled.
C3_IdentifierRule ==
    (RenderedIdentifier /\ ~tokens[1].forceQuote) =>
        LET value == tokens[1].value
        IN  /\ sql.ok
            /\ IF IsPlainWord(value) /\ toUpperCase(value) \notin reservedKeywords
               THEN sql.text = value
               ELSE IsQuotedForm(sql.text, value, "\"")

\* a reserved word in lower case and a value with an embedded double quote
\* were both rendered quoted, and a mixed-case plain word was rendered bare
C3_Witness ==
    /\ RenderedIdentifier /\ ~tokens[1].forceQuote
    /\ tokens[1].value = "as" /\ sql.text = "\"as\""

\* C4: an Identifier token with forceQuote = true renders wrapped in double
\* quotes (internal double quotes doubled) for every value.
C4_ForceQuoteAlwaysQuoted ==
    (RenderedIdentifier /\ tokens[1].forceQuote) =>
        sql.ok /\ IsQuotedForm(sql.text, tokens[1].value, "\"")

--------------------------------------------------------------------------
(* String literal tokens: unlex([literal(s)]) *)

\* a letter, a single quote, a double quote and a backslash
LitAlphabet == "a'\"\\"

LitValues == StringsUpTo(LitAlphabet, MaxLitLen)

InitLiteral ==
    /\ pc = "tokens"
    /\ \E value \in LitValues : tokens = <<literal(value, "string")>>
    /\ sql = NoResult
    /\ IdleOp /\ IdleExpr /\ IdleParams /\ IdleQuery

NextLiteral == Unlex

SpecLiteral == InitLiteral /\ [][NextLiteral]_vars

RenderedStringLiteral ==
    /\ pc = "rendered" /\ Len(tokens) = 1
    /\ tokens[1].type = "Literal" /\ tokens[1].valueType = "string"

\* reading left to right, every q of s is immediately followed by a second q
RECURSIVE QuotesPaired(_, _)
QuotesPaired(s, q) ==
    IF s = "" THEN TRUE
    ELSE IF CharAt(s, 1) # q THEN QuotesPaired(Rest(s), q)
    ELSE Len(s) >= 2 /\ CharAt(s, 2) = q /\ QuotesPaired(SubSeq(s, 3, Len(s)), q)

\* C5: a string Literal token renders as a single quote, the value with every
\* single quote doubled and nothing else changed, and a single quote; inside
\* the delimiters no single quote is unpaired.
C5_LiteralEscape ==
    RenderedStringLiteral =>
        /\ sql.ok
        /\ IsQuotedForm(sql.text, tokens[1].value, "'")
        /\ QuotesPaired(SubSeq(sql.text, 2, Len(sql.text) - 1), "'")

\* a value with two single quotes was rendered with both doubled
C5_Witness ==
    /\ RenderedStringLiteral
    /\ tokens[1].value = "a'a'"
    /\ sql.text = "'a''a'''"

--------------------------------------------------------------------------
(* quote.operator(op) *)

\* letters spelling the whitelisted OR, a lower-case letter, and the symbols
\* that spell -- and /* beside a harmless one
OpAlphabet == "ORa-/*="

OpValues == StringsUpTo(OpAlphabet, MaxOpLen)

InitOperator ==
    /\ pc = "operator"
    /\ op \in OpValues
    /\ IdleLex /\ IdleExpr /\ IdleParams /\ IdleQuery

CallQuoteOperator ==
    /\ pc = "operator"
    /\ sql' = quoteOperator(op)
    /\ pc' = "quoted"
    /\ UNCHANGED <<tokens, op, expr, types, params, picked, record, packed, query, calls, static, heap, held, fromItem, tuples>>

NextOperator == CallQuoteOperator

SpecOperator == InitOperator /\ [][NextOperator]_vars

\* the operators the specification calls safe
IsSymbolic(o) ==
    /\ o # ""
    /\ \A i \in 1..Len(o) : Contains("+-*/<>=~!@#%^&|?" \o Backquote, CharAt(o, i))
IsSafeOperator(o) ==
    \/ o \in validOperators
    \/ IsSymbolic(o) /\ ~HasSubstring(o, "--") /\ ~HasSubstring(o, "/*")

\* C6: quote.operator(op) returns op unchanged if and only if op is
\* whitelisted, or consists only of symbol characters and contains neither
\* -- nor /*; every other string fails with InvalidOperator.
C6_OperatorSafety ==
    pc = "quoted" =>
        /\ sql.ok <=> IsSafeOperator(op)
        /\ sql.ok => sql.text = op

--------------------------------------------------------------------------
(* Token lists assembled by the host with the token constructors *)

PushedKeyWords == {"SELECT", "ALL", "CAST", "ARRAY", "ANY"}
PushedIdentifiers == {"f"}
PushedNumbers == {"42"}
PushedOperators == {"="}

InitUnlex ==
    /\ pc = "tokens"
    /\ tokens = <<>>
    /\ sql = NoResult
    /\ IdleOp /\ IdleExpr /\ IdleParams /\ IdleQuery

Push(token) ==
    /\ pc = "tokens"
    /\ Len(tokens) < MaxTokens
    /\ tokens' = Append(tokens, token)
    /\ UNCHANGED <<pc, sql, op, expr, types, params, picked, record, packed, query, calls, static, heap, held, fromItem, tuples>>

PushKeyWord == \E value \in PushedKeyWords : Push(keyWord(value))
PushIdentifier == \E value \in PushedIdentifiers : Push(identifier(value, FALSE))
PushLiteral == \E value \in PushedNumbers : Push(literal(value, "number"))
PushOperator == \E value \in PushedOperators : Push(operator(value))
PushSpecialCharacter == \E value \in SpecialCharacters : Push(specialCharacter(value))
PushColumnReference == Push(columnReference("t", "c"))

NextUnlex ==
    \/ PushKeyWord
    \/ PushIdentifier
    \/ PushLiteral
    \/ PushOperator
    \/ PushSpecialCharacter
    \/ PushColumnReference
    \/ Unlex

SpecUnlex == InitUnlex /\ [][NextUnlex]_vars

\* the spacing rule as the specification words it: TRUE when no space goes
\* between token and nextToken
OpensBracket(token) == token.type = "SpecialCharacter" /\ token.value \in {"(", "["}
NoSpaceBetween(token, nextToken) ==
    \/ OpensBracket(token)
    \/ nextToken.type = "SpecialCharacter" /\ nextToken.value \in {")", "]", ","}
    \/ token.type = "Identifier" /\ nextToken.type = "SpecialCharacter" /\ nextToken.value = "("
    \/ /\ token.type = "KeyWord" /\ token.value \in {"CAST", "ARRAY", "ANY", "ALL"}
       /\ OpensBracket(nextToken)

\* the text of toks[1..n] under that rule (every toks[i] renders)
RECURSIVE SpacedText(_, _)
SpacedText(toks, n) ==
    IF n = 0 THEN ""
    ELSE IF n = 1 THEN unlex1(toks[1]).text
    ELSE SpacedText(toks, n - 1)
            \o (IF NoSpaceBetween(toks[n - 1], toks[n]) THEN "" ELSE " ")
            \o unlex1(toks[n]).text

\* C7: unlex puts one space between consecutive tokens except after ( or [,
\* before ), ] or ",", between an identifier and a following (, and after
\* CAST, ARRAY, ANY or ALL only when the next token opens a bracketed form;
\* nothing is added before the first or after the last token.
C7_SpacingRule ==
    (pc = "rendered" /\ sql.ok) => sql.text = SpacedText(tokens, Len(tokens))

--------------------------------------------------------------------------
(* expression.ts: the expression AST *)

\* Every node is a record of one shape; the fields a class does not have in
\* the source hold "" / 0 / <<>>.
Node(node, o, value, valueType, tableName, name, index, operands) ==
    [node |-> node, op |-> o, value |-> value, valueType |-> valueType,
     tableName |-> tableName, name |-> name, index |-> index, operands |-> operands]

Constant(value, valueType) == Node("Constant", "", value, valueType, "", "", 0, <<>>)
CollationIdentifier(name) == Node("CollationIdentifier", "", "", "", "", name, 0, <<>>)
PrefixExpr(o, operand) == Node("PrefixExpr", o, "", "", "", "", 0, <<operand>>)
PostfixExpr(operand, o) == Node("PostfixExpr", o, "", "", "", "", 0, <<operand>>)
InfixExpr(left, o, right) == Node("InfixExpr", o, "", "", "", "", 0, <<left, right>>)
MultiOperandExpr(left, o, right) == Node("MultiOperandExpr", o, "", "", "", "", 0, <<left>> \o right)
FuncExpr(functionName, args) == Node("FuncExpr", "", "", "", "", functionName, 0, args)
Field(tableName, name) == Node("Field", "", "", "", tableName, name, 0, <<>>)
ParameterExpr(index) == Node("ParameterExpr", "", "", "", "", "", index, <<>>)

\* BaseExpr methods and the exported constructors
isNull(this) == PostfixExpr(this, "IS NULL")
isNotNull(this) == PostfixExpr(this, "IS NOT NULL")
or(this, other) == InfixExpr(this, "OR", other)
and(this, other) == InfixExpr(this, "AND", other)
eq(this, other) == InfixExpr(this, "=", other)
ne(this, other) == InfixExpr(this, "<>", other)
collate(this, collation) == InfixExpr(this, "COLLATE", CollationIdentifier(collation))
constant(value, valueType) == Constant(value, valueType)
func(name, args) == FuncExpr(name, args)
not(arg) == PrefixExpr("not", arg)
field(tableName, name) == Field(tableName, name)

RECURSIVE exprSerialize(_)
RECURSIVE subquerySerialize(_)

serializeArgs(args) == [i \in 1..Len(args) |-> exprSerialize(args[i])]

\* ParameterExpr.serialize: literal('$' + this.index), a string Literal
parameterSerialize(this) ==
    <<literal("$" \o numberToString(this.index), "string")>>

fieldSerialize(this) ==
    <<identifier(this.tableName, FALSE), specialCharacter("."), identifier(this.name, FALSE)>>

prefixSerialize(this) ==
    <<specialCharacter("("), operator(this.op)>>
        \o exprSerialize(this.operands[1]) \o <<specialCharacter(")")>>

postfixSerialize(this) ==
    <<specialCharacter("(")>> \o exprSerialize(this.operands[1])
        \o <<operator(this.op), specialCharacter(")")>>

infixSerialize(this) ==
    <<specialCharacter("(")>> \o exprSerialize(this.operands[1])
        \o <<operator(this.op)>>
        \o exprSerialize(this.operands[2]) \o <<specialCharacter(")")>>

multiOperandSerialize(this) ==
    <<specialCharacter("(")>> \o exprSerialize(this.operands[1])
        \o <<operator(this.op), specialCharacter("(")>>
        \o commaSeparate(serializeArgs(SubSeq(this.operands, 2, Len(this.operands))))
        \o <<specialCharacter(")"), specialCharacter(")")>>

funcSerialize(this) ==
    <<identifier(this.name, FALSE), specialCharacter("(")>>
        \o commaSeparate(serializeArgs(this.operands))
        \o <<specialCharacter(")")>>

\* The classes below keep the fields they have in the source.  An optional
\* constructor argument is <<>> when omitted and <<v>> when given.
SubqueryExpr(subquery) == [node |-> "SubqueryExpr", subquery |-> subquery]
AnyOrAllExpr(left, o, arrayExpr, keyword) ==
    [node |-> "AnyOrAllExpr", left |-> left, op |-> o, arrayExpr |-> arrayExpr,
     keyword |-> keyword]
Aggregate(functionName, args, doDistinct, order, filter) ==
    [node |-> "Aggregate", functionName |-> functionName, args |-> args,
     doDistinct |-> doDistinct, order |-> order, filter |-> filter]
OrderedSetAggregate(functionName, args, order, filter) ==
    [node |-> "OrderedSetAggregate", functionName |-> functionName, args |-> args,
     order |-> order, filter |-> filter]
Cast(expression, toType) == [node |-> "Cast", expression |-> expression, toType |-> toType]
ArrayExpr(args) == [node |-> "ArrayExpr", args |-> args]

\* isExpression(x): x carries the expression tag every BaseExpr has
isExpression(x) == "node" \in DOMAIN x

\* x.serialize() of a Serializable: an expression or a subquery
serializableSerialize(x) ==
    IF isExpression(x) THEN exprSerialize(x) ELSE subquerySerialize(x)

any(this, o, arrayExpr) == AnyOrAllExpr(this, o, arrayExpr, "ANY")
all(this, o, arrayExpr) == AnyOrAllExpr(this, o, arrayExpr, "ALL")
castAs(this, type) == Cast(this, type.name)
array(args) == ArrayExpr(args)

anyOrAllSerialize(this) ==
    <<specialCharacter("(")>> \o exprSerialize(this.left)
        \o <<operator(this.op), keyWord(this.keyword), specialCharacter("(")>>
        \o (IF isExpression(this.arrayExpr)
            THEN exprSerialize(this.arrayExpr)
            ELSE <<specialCharacter("(")>> \o subquerySerialize(this.arrayExpr)
                    \o <<specialCharacter(")")>>)
        \o <<specialCharacter(")"), specialCharacter(")")>>

subqueryExprSerialize(this) ==
    <<specialCharacter("(")>> \o subquerySerialize(this.subquery)
        \o <<specialCharacter(")")>>

serializeFilterWhere(e) ==
    IF Len(e) = 0 THEN <<>>
    ELSE <<keyWord("FILTER"), specialCharacter("("), keyWord("WHERE")>>
            \o exprSerialize(e[1]) \o <<specialCharacter(")")>>

\* serializeOrder of serializeOrderBy
serializeOrder(order) ==
    <<keyWord(order.key)>>
        \o (IF order.key = "USING" THEN <<identifier(order.op, FALSE)>> ELSE <<>>)

serializeOrderBy(args) ==
    commaSeparate([i \in 1..Len(args) |->
        exprSerialize(args[i].expr)
            \o (IF Len(args[i].order) > 0 THEN serializeOrder(args[i].order[1]) ELSE <<>>)
            \o (IF args[i].nulls # ""
                THEN <<keyWord("NULLS"), keyWord(args[i].nulls)>> ELSE <<>>)])

aggregateSerialize(this) ==
    <<identifier(this.functionName, FALSE), specialCharacter("(")>>
        \o (IF this.doDistinct = <<TRUE>> THEN <<keyWord("DISTINCT")>> ELSE <<>>)
        \o commaSeparate(serializeArgs(this.args))
        \o (IF Len(this.order) > 0 THEN serializeOrderBy(this.order[1]) ELSE <<>>)
        \o <<specialCharacter(")")>>
        \o serializeFilterWhere(this.filter)

orderedSetAggregateSerialize(this) ==
    <<identifier(this.functionName, FALSE), specialCharacter("(")>>
        \o commaSeparate(serializeArgs(this.args))
        \o <<specialCharacter(")"), keyWord("WITHIN GROUP"), specialCharacter("(")>>
        \o serializeOrderBy(this.order)
        \o <<specialCharacter(")")>>
        \o serializeFilterWhere(this.filter)

castSerialize(this) ==
    <<keyWord("CAST"), specialCharacter("(")>>
        \o exprSerialize(this.expression)
        \o <<keyWord("AS"), identifier(this.toType, FALSE), specialCharacter(")")>>

arraySerialize(this) ==
    <<keyWord("ARRAY"), specialCharacter("[")>>
        \o commaSeparate([i \in 1..Len(this.args) |-> serializableSerialize(this.args[i])])
        \o <<specialCharacter("]")>>

exprSerialize(e) ==
    CASE e.node = "Constant" -> <<literal(e.value, e.valueType)>>
      [] e.node = "CollationIdentifier" -> <<identifier(e.name, TRUE)>>
      [] e.node = "PrefixExpr" -> prefixSerialize(e)
      [] e.node = "PostfixExpr" -> postfixSerialize(e)
      [] e.node = "InfixExpr" -> infixSerialize(e)
      [] e.node = "MultiOperandExpr" -> multiOperandSerialize(e)
      [] e.node = "FuncExpr" -> funcSerialize(e)
      [] e.node = "Field" -> fieldSerialize(e)
      [] e.node = "ParameterExpr" -> parameterSerialize(e)
      [] e.node = "SubqueryExpr" -> subqueryExprSerialize(e)
      [] e.node = "AnyOrAllExpr" -> anyOrAllSerialize(e)
      [] e.node = "Aggregate" -> aggregateSerialize(e)
      [] e.node = "OrderedSetAggregate" -> orderedSetAggregateSerialize(e)
      [] e.node = "Cast" -> castSerialize(e)
      [] e.node = "ArrayExpr" -> arraySerialize(e)

RECURSIVE ExprDepth(_)
ExprDepth(e) ==
    IF Len(e.operands) = 0 THEN 1
    ELSE 1 + (CHOOSE d \in {ExprDepth(e.operands[i]) : i \in 1..Len(e.operands)} :
                 \A i \in 1..Len(e.operands) : ExprDepth(e.operands[i]) <= d)

--------------------------------------------------------------------------
(* expression.ts: the parameter binder $(types) *)

Undefined == "<undefined>"

\* Object.keys(types) of a map declared with the names of declared, none of
\* them an integer index: the names in insertion order
ObjectKeys(declared) == declared

\* $(types): keys, and ret with ret[n] = new ParameterExpr(i) for the i-th
\* key counted from 0 (keys[j] here is keys[j - 1] there)
Dollar(declared) ==
    LET ks == ObjectKeys(declared)
    IN  [keys |-> ks,
         exprs |-> [n \in {ks[j] : j \in 1..Len(ks)} |->
                       ParameterExpr((CHOOSE j \in 1..Len(ks) : ks[j] = n) - 1)]]

\* t[k] of a host record given as its entries <<[key, value], ...>>
Get(t, k) ==
    IF \E i \in 1..Len(t) : t[i].key = k
    THEN t[CHOOSE i \in 1..Len(t) : t[i].key = k].value
    ELSE Undefined

packerRecordOrder(ks, t) == [i \in 1..Len(t) |-> t[i].value]

\* ret2 = (t) => keys.map(k => t[k])
packer(ks, t) == [j \in 1..Len(ks) |-> Get(t, ks[j])]

--------------------------------------------------------------------------
(* Shared steps of the host: serialize the expression in hand *)

MaxExprDepth == 3    \* deepest expression built
MaxParams == 3       \* most names declared to $(types)
MaxRecord == 2       \* most entries of a record handed to the packer

SerializeExpr ==
    /\ pc = "expr"
    /\ tokens' = exprSerialize(expr)
    /\ pc' = "tokens"
    /\ UNCHANGED <<sql, op, expr, types, params, picked, record, packed, query, calls, static, heap, held, fromItem, tuples>>

--------------------------------------------------------------------------
(* Expressions built through the builder surface *)

\* params of the end-to-end scenario: $({userId: uuid})
UserIdParams == Dollar(<<"userId">>)

LeafFields ==
    {field(t, c) : t \in {"users", "user group"}, c \in {"name", "select"}}
        \cup {field("s", "deleted")}

\* the operands handed to the binary methods
OtherOperands ==
    {constant("true", "boolean"), UserIdParams.exprs["userId"]}
        \cup LeafFields
        \cup {eq(field("up", "user_id"), UserIdParams.exprs["userId"])}

InitExpr ==
    /\ pc = "start"
    /\ IdleLex /\ IdleOp /\ IdleExpr /\ IdleParams /\ IdleQuery

Make(e) ==
    /\ pc = "start"
    /\ expr' = e
    /\ pc' = "expr"
    /\ UNCHANGED <<tokens, sql, op, types, params, picked, record, packed, query, calls, static, heap, held, fromItem, tuples>>

Apply(e) ==
    /\ pc = "expr"
    /\ ExprDepth(expr) < MaxExprDepth
    /\ expr' = e
    /\ UNCHANGED <<pc, tokens, sql, op, types, params, picked, record, packed, query, calls, static, heap, held, fromItem, tuples>>

MakeConstant == Make(constant("true", "boolean"))
MakeField == \E f \in LeafFields : Make(f)
MakeParameter == Make(UserIdParams.exprs["userId"])
ApplyNot == Apply(not(expr))
ApplyIsNull == Apply(isNull(expr))
ApplyAnd == \E other \in OtherOperands : Apply(and(expr, other))
ApplyEq == \E other \in OtherOperands : Apply(eq(expr, other))

NextExpr ==
    \/ MakeConstant
    \/ MakeField
    \/ MakeParameter
    \/ ApplyNot
    \/ ApplyIsNull
    \/ ApplyAnd
    \/ ApplyEq
    \/ SerializeExpr
    \/ Unlex

SpecExpr == InitExpr /\ [][NextExpr]_vars

\* the identifier rule of the specification applied to one name
QuotedName(s) ==
    IF IsPlainWord(s) /\ toUpperCase(s) \notin reservedKeywords
    THEN s
    ELSE "\"" \o replaceAll(s, "\"", "\"\"") \o "\""

\* C8: field(t, c) renders as quoted(t), a dot, quoted(c), with no
\* whitespace on either side of the dot, quoted being the identifier rule
\* applied to each part separately.
C8_FieldRendersDotted ==
    (pc = "rendered" /\ expr.node = "Field") =>
        /\ sql.ok
        /\ sql.text = QuotedName(expr.tableName) \o "." \o QuotedName(expr.name)

\* C9: for every boolean expression e, not(e) serialises and renders without
\* error to "(not " + render(e) + ")".
C9_NotRenders ==
    (/\ pc = "rendered"
     /\ expr.node = "PrefixExpr"
     /\ expr.op = "not"
     /\ unlex(exprSerialize(expr.operands[1])).ok) =>
        /\ sql.ok
        /\ sql.text = "(not " \o unlex(exprSerialize(expr.operands[1])).text \o ")"

--------------------------------------------------------------------------
(* The parameter handle: $(types), the packer, the expressions *)

ParamNames == {"userId", "a", "b"}
HostValues == {"x", "y"}

\* the lists of at most n distinct names
RECURSIVE DistinctLists(_, _)
DistinctLists(names, n) ==
    IF n = 0 THEN {<<>>}
    ELSE LET shorter == DistinctLists(names, n - 1)
         IN  shorter \cup
             UNION {{Append(l, x) : x \in {y \in names : \A i \in 1..Len(l) : l[i] # y}} :
                    l \in shorter}

\* host records: entries in any key order, each key at most once
Records ==
    UNION {{[i \in 1..Len(ks) |-> [key |-> ks[i], value |-> vs[i]]] :
               vs \in [1..Len(ks) -> HostValues]} :
           ks \in DistinctLists(ParamNames, MaxRecord)}

InitParams ==
    /\ pc = "start"
    /\ IdleLex /\ IdleOp /\ IdleExpr /\ IdleParams /\ IdleQuery

CallDollar ==
    /\ pc = "start"
    /\ \E declared \in DistinctLists(ParamNames, MaxParams) :
          /\ types' = declared
          /\ params' = Dollar(declared)
    /\ pc' = "handle"
    /\ UNCHANGED <<tokens, sql, op, expr, picked, record, packed, query, calls, static, heap, held, fromItem, tuples>>

Pack ==
    /\ pc = "handle"
    /\ \E t \in Records :
          /\ record' = t
          /\ packed' = [ok |-> TRUE, values |-> packer(params.keys, t)]
    /\ UNCHANGED <<pc, tokens, sql, op, expr, types, params, picked, query, calls, static, heap, held, fromItem, tuples>>

TakeParam ==
    /\ pc = "handle"
    /\ \E n \in DOMAIN params.exprs :
          /\ picked' = n
          /\ expr' = params.exprs[n]
    /\ pc' = "expr"
    /\ UNCHANGED <<tokens, sql, op, types, params, record, packed, query, calls, static, heap, held, fromItem, tuples>>

NextParams ==
    \/ CallDollar
    \/ Pack
    \/ TakeParam
    \/ SerializeExpr
    \/ Unlex

SpecParams == InitParams /\ [][NextParams]_vars

\* the 1-based place of name n in the declaration
DeclaredPlace(n) == CHOOSE k \in 1..Len(types) : types[k] = n

\* C1: the expression for the k-th declared name renders through serialize +
\* unlex as exactly the bare placeholder text $k (1-based, not in quotes).
C1_PlaceholderText ==
    (pc = "rendered" /\ picked # "") =>
        /\ sql.ok
        /\ sql.text = "$" \o numberToString(DeclaredPlace(picked))

--------------------------------------------------------------------------
(* select.ts: from-items, the subquery state and its builder methods *)

\* An optional field holds <<>> when undefined and <<v>> when set to v.
Some(v) == <<v>>
IsSet(opt) == Len(opt) > 0

\* a token standing for an Error thrown while the list was being built; a
\* list holding one is not a result but the propagating exception
ThrownToken(msg) == Token("Thrown", msg, FALSE, "", "", "")
Threw(toks) == \E i \in 1..Len(toks) : toks[i].type = "Thrown"

\* Table after .as(alias): realName differs from alias
Table(alias, realName) == [kind |-> "Table", alias |-> alias, realName |-> realName]

\* Table.serialize, the aliased branch (the other branch calls
\* quote.tableName, which quote.ts does not define; no such table is built here)
tableSerialize(this) ==
    <<identifier(this.realName, FALSE), keyWord("AS"), identifier(this.alias, FALSE)>>

\* the join classes; RightJoin and FullJoin have no isLateral field
InnerJoin(left, right, on, isLateral) ==
    [kind |-> "InnerJoin", left |-> left, right |-> right, on |-> on, isLateral |-> isLateral]
LeftJoin(left, right, on, isLateral) ==
    [kind |-> "LeftJoin", left |-> left, right |-> right, on |-> on, isLateral |-> isLateral]
RightJoin(left, right, on) ==
    [kind |-> "RightJoin", left |-> left, right |-> right, on |-> on]
FullJoin(left, right, on) ==
    [kind |-> "FullJoin", left |-> left, right |-> right, on |-> on]
CrossJoin(left, right, isLateral) ==
    [kind |-> "CrossJoin", left |-> left, right |-> right, isLateral |-> isLateral]

\* the join methods of BaseFrom; a lateral method's other is what its
\* callback returned, on is what the on callback returned
join(this, other, on) == InnerJoin(this, other, on, FALSE)
lateral(this, other, on) == InnerJoin(this, other, on, TRUE)
leftJoin(this, other, on) == LeftJoin(this, other, on, FALSE)
leftJoinLateral(this, other, on) == LeftJoin(this, other, on, TRUE)
rightJoin(this, other, on) == RightJoin(this, other, on)
crossJoin(this, other) == CrossJoin(this, other, FALSE)
crossJoinLateral(this, other) == CrossJoin(this, other, TRUE)
fullJoin(this, other, on) == FullJoin(this, other, on)

RECURSIVE fromSerialize(_)

\* serializeJoin that never emits LATERAL
serializeJoinNeverLateral(type, isLateral, left, right, on) ==
    <<specialCharacter("(")>> \o fromSerialize(left)
        \o <<keyWord(type), keyWord("JOIN")>>
        \o fromSerialize(right)
        \o <<keyWord("ON")>> \o exprSerialize(on)
        \o <<specialCharacter(")")>>

serializeJoin(type, isLateral, left, right, on) ==
    <<specialCharacter("(")>> \o fromSerialize(left)
        \o <<keyWord(type), keyWord("JOIN")>>
        \o (IF isLateral THEN <<keyWord("LATERAL")>> ELSE <<>>)
        \o fromSerialize(right)
        \o <<keyWord("ON")>> \o exprSerialize(on)
        \o <<specialCharacter(")")>>

crossJoinSerialize(this) ==
    <<specialCharacter("(")>> \o fromSerialize(this.left)
        \o <<keyWord("CROSS JOIN")>>
        \o (IF this.isLateral THEN <<keyWord("LATERAL")>> ELSE <<>>)
        \o fromSerialize(this.right)
        \o <<specialCharacter(")")>>

\* class FromFunction: realName is set once as() has renamed the item
FromFunction(alias, args, ordinality, realName) ==
    [kind |-> "FromFunction", alias |-> alias, args |-> args,
     ordinality |-> ordinality, realName |-> realName]

fromFunction(name, args) == FromFunction(name, args, FALSE, <<>>)

withOrdinality(this) == FromFunction(this.alias, this.args, TRUE, this.realName)

fromFunctionAs(this, alias) ==
    FromFunction(alias, this.args, this.ordinality, Some(this.alias))

fromFunctionSerialize(this) ==
    LET args == commaSeparate([i \in 1..Len(this.args) |-> exprSerialize(this.args[i])])
        name == identifier(quoteIdentifier(IF IsSet(this.realName) THEN this.realName[1]
                                           ELSE this.alias, FALSE), FALSE)
    IN  <<name, specialCharacter("(")>> \o args \o <<specialCharacter(")")>>
            \o (IF this.ordinality THEN <<keyWord("WITH ORDINALITY")>> ELSE <<>>)
            \o (IF ~IsSet(this.realName) THEN <<>>
                ELSE <<keyWord("AS"), identifier(quoteIdentifier(this.alias, FALSE), FALSE)>>)

\* class FromSubquery, built by subquery.as(alias)
FromSubquery(alias, subquery) ==
    [kind |-> "FromSubquery", alias |-> alias, subquery |-> subquery]

subqueryAs(this, alias) == FromSubquery(alias, this)

fromSubquerySerialize(this) ==
    LET subquery == subquerySerialize(this.subquery)
    IN  IF Threw(subquery) THEN subquery
        ELSE <<specialCharacter("(")>> \o subquery
                \o <<specialCharacter(")"), keyWord("AS"),
                     identifier(quoteIdentifier(this.alias, FALSE), FALSE)>>

\* from.serialize(), dispatched on the class of from
fromSerialize(from) ==
    CASE from.kind = "Table" -> tableSerialize(from)
      [] from.kind = "InnerJoin" ->
            serializeJoin("INNER", from.isLateral, from.left, from.right, from.on)
      [] from.kind = "LeftJoin" ->
            serializeJoin("LEFT", from.isLateral, from.left, from.right, from.on)
      [] from.kind = "RightJoin" ->
            serializeJoin("RIGHT", FALSE, from.left, from.right, from.on)
      [] from.kind = "FullJoin" ->
            serializeJoin("FULL", FALSE, from.left, from.right, from.on)
      [] from.kind = "CrossJoin" -> crossJoinSerialize(from)
      [] from.kind = "FromFunction" -> fromFunctionSerialize(from)
      [] from.kind = "FromSubquery" -> fromSubquerySerialize(from)

\* asc / desc / using of BaseExpr; nulls = "" is the omitted argument
OrderArg(e, order, nulls) == [expr |-> e, order |-> order, nulls |-> nulls]
asc(this, nulls) == OrderArg(this, Some([key |-> "ASC", op |-> ""]), nulls)
desc(this, nulls) == OrderArg(this, Some([key |-> "DESC", op |-> ""]), nulls)
using(this, o, nulls) == OrderArg(this, Some([key |-> "USING", op |-> o]), nulls)

\* an element of the array an orderBy callback returns: a bare expression
\* (isOrderArg FALSE) or an OrderArg
BareOrder(e) == [isOrderArg |-> FALSE, arg |-> OrderArg(e, <<>>, "")]
GivenOrder(a) == [isOrderArg |-> TRUE, arg |-> a]

\* resolveOrderArgs: isExpression(arg) ? {expr: arg} : arg
resolveOrderArgs(args) == [i \in 1..Len(args) |-> args[i].arg]

\* GroupingTree: an expression, an array of expressions, or {type, args}
TreeExpr(e) == [type |-> "expr", expr |-> <<e>>, args |-> <<>>]
TreeArray(es) == [type |-> "array", expr |-> <<>>, args |-> [i \in 1..Len(es) |-> TreeExpr(es[i])]]
rollup(args) == [type |-> "ROLLUP", expr |-> <<>>, args |-> args]
cube(args) == [type |-> "CUBE", expr |-> <<>>, args |-> args]
groupingSets(args) == [type |-> "GROUPING SETS", expr |-> <<>>, args |-> args]

\* SubqueryImpl.make(from, tuple); tuple is Object.entries of the projection
initState ==
    [distinct |-> <<>>, where |-> <<>>, groupBy |-> <<>>, groupByDistinct |-> FALSE,
     having |-> <<>>, windows |-> <<>>, setOps |-> <<>>, orderBy |-> <<>>,
     offset |-> <<>>, fetch |-> <<>>, limit |-> <<>>, locks |-> <<>>]

make(from, tuple) == [from |-> from, tuple |-> tuple, state |-> initState]

\* update(newState): new SubqueryImpl(from, tuple, {...this.state, ...newState})
update(this, newState) ==
    [this EXCEPT !.state =
        [f \in DOMAIN this.state |->
            IF f \in DOMAIN newState THEN newState[f] ELSE this.state[f]]]

distinct(this) == update(this, [distinct |-> Some([type |-> "row", key |-> <<>>])])
distinctOn(this, key) == update(this, [distinct |-> Some([type |-> "on", key |-> key])])
where(this, cond) == update(this, [where |-> Some(cond)])
groupBy(this, dims) == update(this, [groupBy |-> Some(dims), groupByDistinct |-> FALSE])
groupByDistinct(this, dims) == update(this, [groupBy |-> Some(dims), groupByDistinct |-> TRUE])
rollupBy(this, dims) == update(this, [groupBy |-> Some(rollup(dims)), groupByDistinct |-> FALSE])
cubeBy(this, dims) == update(this, [groupBy |-> Some(cube(dims)), groupByDistinct |-> FALSE])
groupingSetsBy(this, sets) ==
    update(this, [groupBy |-> Some(groupingSets(sets)), groupByDistinct |-> FALSE])
having(this, cond) == update(this, [having |-> Some(cond)])

\* WindowMaker.as(arg1, arg2): arg1 is WindowParams (isName FALSE) or an
\* existing window name (isName TRUE); arg2 is optional.  WindowParams is
\* [partitionBy, orderBy (optional list), frame (optional)].
\* The result is [ok, query]; ok = FALSE when reading arg2! throws.
windowAs(this, name, isName, existingWindowName, arg1, arg2) ==
    IF isName /\ ~IsSet(arg2) THEN [ok |-> FALSE, query |-> this]
    ELSE LET ps == IF isName THEN arg2[1] ELSE arg1
             w == [type |-> IF isName THEN "ref" ELSE "fresh",
                   name |-> name,
                   existingWindowName |-> IF isName THEN existingWindowName ELSE "",
                   partitionBy |-> IF isName THEN <<>> ELSE arg1.partitionBy,
                   orderBy |-> IF IsSet(ps.orderBy)
                               THEN Some(resolveOrderArgs(ps.orderBy[1])) ELSE <<>>,
                   frame |-> ps.frame]
         IN  [ok |-> TRUE,
              query |-> update(this, [windows |-> Append(this.state.windows, w)])]

addSetOp(this, type, isAll, other) ==
    update(this, [setOps |-> Append(this.state.setOps,
                                    [type |-> type, all |-> isAll, query |-> other])])
union(this, other) == addSetOp(this, "UNION", FALSE, other)
unionAll(this, other) == addSetOp(this, "UNION", TRUE, other)
intersect(this, other) == addSetOp(this, "INTERSECT", FALSE, other)
intersectAll(this, other) == addSetOp(this, "INTERSECT", TRUE, other)
except(this, other) == addSetOp(this, "EXCEPT", FALSE, other)
exceptAll(this, other) == addSetOp(this, "EXCEPT", TRUE, other)

orderBy(this, order) == update(this, [orderBy |-> Some(resolveOrderArgs(order))])

\* offset / limit / fetch called with a host number n: constant(n)
offset(this, n) == update(this, [offset |-> Some(constant(numberToString(n), "number"))])
limit(this, n) ==
    update(this, [limit |-> Some([all |-> FALSE,
                                  expr |-> Some(constant(numberToString(n), "number"))])])
limitAll(this) == update(this, [limit |-> Some([all |-> TRUE, expr |-> <<>>])])
fetch(this, n, ties) ==
    update(this, [fetch |-> Some([fetch |-> constant(numberToString(n), "number"),
                                  withTies |-> (ties = "WITH TIES")])])

\* for(strength, block): block = "" is the omitted argument; tables is never
\* given (its rendering goes through quote.tableName)
\* for(..) putting the new lock in front of the list
forPrepend(this, strength, block) ==
    update(this, [locks |-> <<[strength |-> strength, block |-> block]>>
                               \o this.state.locks])

for(this, strength, block) ==
    update(this, [locks |-> Append(this.state.locks,
                                   [strength |-> strength, block |-> block])])

--------------------------------------------------------------------------
(* select.ts: serialisation of a subquery *)

RECURSIVE Flatten(_)
Flatten(lists) ==
    IF Len(lists) = 0 THEN <<>>
    ELSE Flatten(SubSeq(lists, 1, Len(lists) - 1)) \o lists[Len(lists)]

serializeDistinct(d) ==
    IF d.type = "row" THEN <<keyWord("DISTINCT")>>
    ELSE <<keyWord("DISTINCT"), keyWord("ON")>> \o commaSeparate(serializeArgs(d.key))

\* go(tree, ixInParent) of serializeGroupBy: the tokens it pushes
RECURSIVE go(_, _)
go(tree, ixInParent) ==
    LET comma == IF ixInParent > 0 THEN <<specialCharacter(",")>> ELSE <<>>
        children == Flatten([i \in 1..Len(tree.args) |-> go(tree.args[i], i - 1)])
    IN  IF tree.type = "expr" THEN comma \o exprSerialize(tree.expr[1])
        ELSE IF tree.type = "array" THEN comma \o children
        ELSE comma \o <<keyWord(tree.type), specialCharacter("(")>>
                   \o children \o <<specialCharacter(")")>>

serializeGroupBy(tree, isDistinct) ==
    <<keyWord("GROUP BY")>>
        \o (IF isDistinct THEN <<keyWord("DISTINCT")>> ELSE <<>>)
        \o go(tree, 0)

serializeOrderArg(arg) ==
    exprSerialize(arg.expr)
        \o (IF IsSet(arg.order) /\ arg.order[1].key = "USING"
            THEN <<keyWord("USING"), identifier(arg.order[1].op, FALSE)>>
            ELSE IF IsSet(arg.order) THEN <<keyWord(arg.order[1].key)>>
            ELSE <<>>)
        \o (IF arg.nulls # "" THEN <<keyWord(arg.nulls)>> ELSE <<>>)

\* FrameRef is [type, offset]; offset is read for PRECEDING / FOLLOWING only
serializeFrameRef(ref) ==
    (IF ref.type \in {"PRECEDING", "FOLLOWING"}
     THEN <<literal(numberToString(ref.offset), "string")>> ELSE <<>>)
        \o <<keyWord(ref.type)>>

\* WindowFrame is [type, start, end (optional), exclusion ("" when omitted)]
serializeFrame(frame) ==
    <<keyWord(frame.type)>>
        \o (IF IsSet(frame.end) THEN <<keyWord("BETWEEN")>> ELSE <<>>)
        \o serializeFrameRef(frame.start)
        \o (IF IsSet(frame.end)
            THEN <<keyWord("AND")>> \o serializeFrameRef(frame.end[1]) ELSE <<>>)
        \o (IF frame.exclusion # "" THEN <<keyWord(frame.exclusion)>> ELSE <<>>)

serializeWindow(window) ==
    <<identifier(window.name, FALSE), keyWord("AS"), specialCharacter("(")>>
        \o (IF window.type = "fresh"
            THEN <<keyWord("PARTITION BY")>>
                    \o commaSeparate(serializeArgs(window.partitionBy))
            ELSE <<identifier(window.existingWindowName, FALSE)>>)
        \o (IF IsSet(window.orderBy)
            THEN Flatten([i \in 1..Len(window.orderBy[1]) |->
                             serializeOrderArg(window.orderBy[1][i])])
            ELSE <<>>)
        \o (IF IsSet(window.frame) THEN serializeFrame(window.frame[1]) ELSE <<>>)
        \o <<specialCharacter(")")>>

\* serializeLimits that keeps the LIMIT of the state in front of OFFSET .. FETCH
serializeLimitsBothStyles(state) ==
    (IF IsSet(state.limit)
     THEN <<keyWord("LIMIT")>>
             \o (IF state.limit[1].all THEN <<keyWord("ALL")>>
                 ELSE exprSerialize(state.limit[1].expr[1]))
     ELSE <<>>)
        \o (IF ~IsSet(state.offset) THEN <<>>
            ELSE IF IsSet(state.fetch)
            THEN <<keyWord("OFFSET")>> \o exprSerialize(state.offset[1]) \o <<keyWord("ROWS")>>
                    \o <<keyWord("FETCH NEXT")>> \o exprSerialize(state.fetch[1].fetch)
                    \o <<keyWord("ROWS")>>
                    \o <<keyWord(IF state.fetch[1].withTies THEN "WITH TIES" ELSE "ONLY")>>
            ELSE <<keyWord("OFFSET")>> \o exprSerialize(state.offset[1]))

\* serializeLimits that emits FETCH on its own when no OFFSET is set
serializeLimitsUnchecked(state) ==
    IF IsSet(state.fetch) THEN
        (IF IsSet(state.offset)
         THEN <<keyWord("OFFSET")>> \o exprSerialize(state.offset[1]) \o <<keyWord("ROWS")>>
         ELSE <<>>)
            \o <<keyWord("FETCH NEXT")>> \o exprSerialize(state.fetch[1].fetch)
            \o <<keyWord("ROWS")>>
            \o <<keyWord(IF state.fetch[1].withTies THEN "WITH TIES" ELSE "ONLY")>>
    ELSE <<>>

serializeLimits(state) ==
    IF IsSet(state.fetch) THEN
        IF ~IsSet(state.offset) THEN <<ThrownToken("Recieved FETCH without OFFSET")>>
        ELSE <<keyWord("OFFSET")>> \o exprSerialize(state.offset[1]) \o <<keyWord("ROWS")>>
                \o <<keyWord("FETCH NEXT")>> \o exprSerialize(state.fetch[1].fetch)
                \o <<keyWord("ROWS")>>
                \o <<keyWord(IF state.fetch[1].withTies THEN "WITH TIES" ELSE "ONLY")>>
    ELSE (IF IsSet(state.limit)
          THEN <<keyWord("LIMIT")>>
                  \o (IF state.limit[1].all THEN <<keyWord("ALL")>>
                      ELSE exprSerialize(state.limit[1].expr[1]))
          ELSE <<>>)
         \o (IF IsSet(state.offset)
             THEN <<keyWord("OFFSET")>> \o exprSerialize(state.offset[1])
             ELSE <<>>)

serializeLock(lock) ==
    <<keyWord("FOR"), keyWord(lock.strength)>>
        \o (IF lock.block # "" THEN <<keyWord(lock.block)>> ELSE <<>>)

serializeSetOp(setOp) ==
    <<keyWord(setOp.type)>>
        \o (IF setOp.all THEN <<keyWord("ALL")>> ELSE <<>>)
        \o subquerySerialize(setOp.query)

serializeProjection(tuple) ==
    IF Len(tuple) = 0 THEN <<specialCharacter("*")>>
    ELSE commaSeparate([i \in 1..Len(tuple) |->
            exprSerialize(tuple[i].expr)
                \o <<keyWord("AS"), identifier(quoteIdentifier(tuple[i].name, FALSE), FALSE)>>])

\* the pieces SubqueryImpl.serialize pushes onto parts, in its order
clauseParts(this) ==
    LET state == this.state
    IN  << <<keyWord("SELECT")>>,
           IF IsSet(state.distinct) THEN serializeDistinct(state.distinct[1]) ELSE <<>>,
           serializeProjection(this.tuple),
           <<keyWord("FROM")>> \o fromSerialize(this.from),
           IF IsSet(state.where)
               THEN <<keyWord("WHERE")>> \o exprSerialize(state.where[1]) ELSE <<>>,
           IF IsSet(state.groupBy)
               THEN serializeGroupBy(state.groupBy[1], state.groupByDistinct) ELSE <<>>,
           IF IsSet(state.having)
               THEN <<keyWord("HAVING")>> \o exprSerialize(state.having[1]) ELSE <<>>,
           IF Len(state.windows) > 0
               THEN <<keyWord("WINDOW")>>
                       \o commaSeparate([i \in 1..Len(state.windows) |->
                                            serializeWindow(state.windows[i])])
               ELSE <<>>,
           Flatten([i \in 1..Len(state.setOps) |-> serializeSetOp(state.setOps[i])]),
           IF IsSet(state.orderBy)
               THEN <<keyWord("ORDER BY")>>
                       \o commaSeparate([i \in 1..Len(state.orderBy[1]) |->
                                            serializeOrderArg(state.orderBy[1][i])])
               ELSE <<>>,
           serializeLimits(state),
           Flatten([i \in 1..Len(state.locks) |-> serializeLock(state.locks[i])]) >>

\* the same pieces with ORDER BY pushed before the set-op continuations
subquerySerializeOrderFirst(this) ==
    LET parts == clauseParts(this)
    IN  Flatten(SubSeq(parts, 1, 8) \o <<parts[10], parts[9]>> \o SubSeq(parts, 11, 12))

subquerySerialize(this) == Flatten(clauseParts(this))

--------------------------------------------------------------------------
(* select-types: the staged types a well-typed host is held to *)

\* the static type of the query expression in hand: the stage it names and
\* its AllowLock argument; "any" once a call the types do not offer was made
StageType(stage, allowLock) == [stage |-> stage, allowLock |-> allowLock]
AnyType == StageType("any", FALSE)

\* each stage is the intersection of the next one with its own methods
StageRank(stage) ==
    CASE stage = "SelectFrom" -> 0
      [] stage = "DistinctSubq" -> 1
      [] stage = "FilteredSubq" -> 2
      [] stage = "GroupedSubq" -> 3
      [] stage = "GroupedFilteredSubq" -> 4
      [] stage = "UnitSubq" -> 5
      [] stage = "OrderableSubq" -> 6
      [] stage = "OrderedSubq" -> 7
      [] stage = "OffsetSubq" -> 8
      [] stage = "LimitedSubq" -> 8
      [] stage = "LockableSubq" -> 9
      [] OTHER -> 10

SetOpMethods == {"union", "unionAll", "intersect", "intersectAll", "except", "exceptAll"}
GroupMethods == {"groupBy", "groupByDistinct", "rollup", "cube", "groupingSets"}

\* t includes the members declared on the stage named
Offers(t, stage) == StageRank(t.stage) <= StageRank(stage)

\* the declared types with the set-op combinators passing AllowLock through
ReturnTypeSetOpKeepsLock(t, method) ==
    IF method \in SetOpMethods /\ Offers(t, "UnitSubq") THEN StageType("UnitSubq", t.allowLock)
    ELSE IF method = "for" /\ t.allowLock /\ Offers(t, "LockableSubq")
    THEN StageType("LockableSubq", TRUE)
    ELSE AnyType

\* the declared return type of t.method(..), AnyType when t has no such
\* member.  OrderedSubq is OrderedSubq1 | OrderedSubq2: offset is taken from
\* the first alternative and limit from the second.
ReturnType(t, method) ==
    CASE method \in {"distinct", "distinctOn"} /\ Offers(t, "SelectFrom") ->
            StageType("DistinctSubq", FALSE)
      [] method = "where" /\ Offers(t, "DistinctSubq") ->
            StageType("FilteredSubq", t.allowLock)
      [] method \in GroupMethods /\ Offers(t, "FilteredSubq") ->
            StageType("GroupedSubq", FALSE)
      [] method = "having" /\ Offers(t, "GroupedSubq") ->
            StageType("GroupedFilteredSubq", FALSE)
      [] method = "window" /\ Offers(t, "GroupedFilteredSubq") ->
            StageType("GroupedFilteredSubq", t.allowLock)
      [] method \in SetOpMethods /\ Offers(t, "UnitSubq") ->
            StageType("UnitSubq", FALSE)
      [] method = "orderBy" /\ Offers(t, "OrderableSubq") ->
            StageType("OrderedSubq", t.allowLock)
      [] method = "offset" /\ Offers(t, "OrderedSubq") ->
            StageType("OffsetSubq", t.allowLock)
      [] method = "offset" /\ t.stage = "LimitedSubq" ->
            StageType("LockableSubq", t.allowLock)
      [] method = "limit" /\ Offers(t, "OrderedSubq") ->
            StageType("LimitedSubq", t.allowLock)
      [] method \in {"limit", "limitAll", "fetch"} /\ t.stage = "OffsetSubq" ->
            StageType("LockableSubq", t.allowLock)
      [] method = "for" /\ t.allowLock /\ Offers(t, "LockableSubq") ->
            StageType("LockableSubq", TRUE)
      [] OTHER -> AnyType

--------------------------------------------------------------------------
(* Queries built through the builder surface *)

Posts == Table("p", "posts")
Drafts == Table("d", "drafts")
PostId == field("p", "id")
PostName == field("p", "name")

\* what the host's callbacks return
Projections ==
    { <<>>,
      <<[name |-> "id", expr |-> PostId]>>,
      <<[name |-> "id", expr |-> PostId], [name |-> "title", expr |-> PostName]>> }
Conditions == {eq(PostId, constant("1", "number"))}
Keys == {<<PostId, PostName>>}
GroupingTrees == {TreeExpr(PostId), TreeArray(<<PostId, PostName>>)}
RollupArgs == {<<TreeExpr(PostId), TreeArray(<<PostId, PostName>>)>>}
Orders == {<<BareOrder(PostId)>>, <<GivenOrder(desc(PostName, "NULLS LAST")), BareOrder(PostId)>>}
Frames ==
    { [type |-> "ROWS", start |-> [type |-> "PRECEDING", offset |-> 1],
       end |-> Some([type |-> "CURRENT ROW", offset |-> 0]), exclusion |-> ""] }
WindowParams ==
    { [partitionBy |-> <<PostId>>, orderBy |-> <<>>, frame |-> <<>>] }
        \cup { [partitionBy |-> <<PostId>>, orderBy |-> Some(o), frame |-> Some(f)] :
                  o \in {<<BareOrder(PostId)>>}, f \in Frames }
\* the operand of a set-op: a query with no clause of its own
Operands == {make(Drafts, <<>>)}
Counts == {0, 2}
Strengths == {"UPDATE", "KEY SHARE"}
Blocks == {"", "SKIP LOCKED"}

InitQuery ==
    /\ pc = "start"
    /\ IdleLex /\ IdleOp /\ IdleExpr /\ IdleParams /\ IdleQuery

\* from.select(proj)
Select ==
    /\ pc = "start"
    /\ \E tuple \in Projections : query' = make(Posts, tuple)
    /\ pc' = "query"
    /\ static' = StageType("SelectFrom", TRUE)
    /\ UNCHANGED <<tokens, sql, op, expr, types, params, picked, record, packed, calls, heap, held, fromItem, tuples>>

\* one builder call: the host keeps the query the method returned
Call(method, q) ==
    /\ pc = "query"
    /\ Len(calls) < MaxCalls
    /\ query' = q
    /\ calls' = Append(calls, method)
    /\ static' = ReturnType(static, method)
    /\ UNCHANGED <<pc, tokens, sql, op, expr, types, params, picked, record, packed, heap, held, fromItem, tuples>>

CallDistinct == Call("distinct", distinct(query))
CallDistinctOn == \E key \in Keys : Call("distinctOn", distinctOn(query, key))
CallWhere == \E cond \in Conditions : Call("where", where(query, cond))
CallGroupBy == \E dims \in GroupingTrees : Call("groupBy", groupBy(query, dims))
CallGroupByDistinct ==
    Call("groupByDistinct", groupByDistinct(query, TreeExpr(PostId)))
CallRollup == \E dims \in RollupArgs : Call("rollup", rollupBy(query, dims))
CallCube == \E dims \in RollupArgs : Call("cube", cubeBy(query, dims))
CallGroupingSets ==
    Call("groupingSets", groupingSetsBy(query, <<TreeArray(<<PostId>>), TreeArray(<<>>)>>))
CallHaving == \E cond \in Conditions : Call("having", having(query, cond))

\* query.window(name).as(params) / .as(existingWindowName, params?)
CallWindow ==
    /\ pc = "query"
    /\ Len(calls) < MaxCalls
    /\ \E isName \in BOOLEAN, ps \in WindowParams, given \in BOOLEAN :
          LET r == windowAs(query, "w", isName, "v", ps,
                            IF given THEN Some(ps) ELSE <<>>)
          IN  /\ query' = r.query
              /\ pc' = IF r.ok THEN "query" ELSE "threw"
    /\ calls' = Append(calls, "window")
    /\ static' = ReturnType(static, "window")
    /\ UNCHANGED <<tokens, sql, op, expr, types, params, picked, record, packed, heap, held, fromItem, tuples>>

CallUnion == \E other \in Operands : Call("union", union(query, other))
CallUnionAll == \E other \in Operands : Call("unionAll", unionAll(query, other))
CallIntersect == \E other \in Operands : Call("intersect", intersect(query, other))
CallIntersectAll == \E other \in Operands : Call("intersectAll", intersectAll(query, other))
CallExcept == \E other \in Operands : Call("except", except(query, other))
CallExceptAll == \E other \in Operands : Call("exceptAll", exceptAll(query, other))
CallOrderBy == \E order \in Orders : Call("orderBy", orderBy(query, order))
CallOffset == \E n \in Counts : Call("offset", offset(query, n))
CallLimit == Call("limit", limit(query, 2))
CallLimitAll == Call("limitAll", limitAll(query))
CallFetch ==
    \E ties \in {"", "WITH TIES"} : Call("fetch", fetch(query, 2, ties))
CallFor == \E strength \in Strengths, block \in Blocks : Call("for", for(query, strength, block))

\* query.serialize(): the token list, or the Error it throws
SerializeQuery ==
    /\ pc = "query"
    /\ LET toks == subquerySerialize(query)
       IN  IF Threw(toks)
           THEN tokens' = <<>> /\ pc' = "threw"
           ELSE tokens' = toks /\ pc' = "tokens"
    /\ UNCHANGED <<sql, op, expr, types, params, picked, record, packed, query, calls, static, heap, held, fromItem, tuples>>

NextQuery ==
    \/ Select
    \/ CallDistinct
    \/ CallDistinctOn
    \/ CallWhere
    \/ CallGroupBy
    \/ CallGroupByDistinct
    \/ CallRollup
    \/ CallCube
    \/ CallGroupingSets
    \/ CallHaving
    \/ CallWindow
    \/ CallUnion
    \/ CallUnionAll
    \/ CallIntersect
    \/ CallIntersectAll
    \/ CallExcept
    \/ CallExceptAll
    \/ CallOrderBy
    \/ CallOffset
    \/ CallLimit
    \/ CallLimitAll
    \/ CallFetch
    \/ CallFor
    \/ SerializeQuery

SpecQuery == InitQuery /\ [][NextQuery]_vars


\* the place of a clause keyword in the documented clause order; 0 for any
\* other keyword
ClauseRank(v) ==
    CASE v = "WHERE" -> 1
      [] v = "GROUP BY" -> 2
      [] v = "HAVING" -> 3
      [] v = "WINDOW" -> 4
      [] v \in {"UNION", "INTERSECT", "EXCEPT"} -> 5
      [] v = "ORDER BY" -> 6
      [] v \in {"LIMIT", "OFFSET", "FETCH NEXT"} -> 7
      [] v = "FOR" -> 8
      [] OTHER -> 0

IsKeyWordAt(i, v) == i \in 1..Len(tokens) /\ tokens[i] = keyWord(v)
TokenRank(i) == IF tokens[i].type = "KeyWord" THEN ClauseRank(tokens[i].value) ELSE 0
HasClause(v) == \E i \in 1..Len(tokens) : IsKeyWordAt(i, v)
CountKeyWords(vs) ==
    Cardinality({i \in 1..Len(tokens) : tokens[i].type = "KeyWord" /\ tokens[i].value \in vs})
FirstFrom ==
    CHOOSE i \in 1..Len(tokens) :
        IsKeyWordAt(i, "FROM") /\ \A j \in 1..(i - 1) : ~IsKeyWordAt(j, "FROM")
\* the index of the k-th AS keyword
RECURSIVE AsAt(_)
AsAt(k) ==
    CHOOSE i \in 1..Len(tokens) :
        /\ IsKeyWordAt(i, "AS")
        /\ Cardinality({j \in 1..(i - 1) : IsKeyWordAt(j, "AS")}) = k - 1

Serialized == pc = "tokens" /\ "state" \in DOMAIN query

\* C10: a serialized query starts with SELECT, then DISTINCT exactly when a
\* distinct clause was set, then the projection (every item as its expression,
\* AS, its column name, or * for an empty projection), then FROM; after FROM
\* the clause keywords WHERE, GROUP BY, HAVING, WINDOW, set-ops, ORDER BY,
\* pagination, FOR appear in that order whatever order the builder methods
\* were called in; a clause appears exactly when it was set.
C10_ClauseOrder ==
    Serialized =>
        LET st == query.state
            n == Len(tokens)
            tuple == query.tuple
        IN  /\ IsKeyWordAt(1, "SELECT")
            /\ IsSet(st.distinct) <=> IsKeyWordAt(2, "DISTINCT")
            /\ HasClause("FROM")
            /\ IF Len(tuple) = 0
               THEN /\ tokens[FirstFrom - 1] = specialCharacter("*")
                    /\ \A i \in 1..FirstFrom : ~IsKeyWordAt(i, "AS")
               ELSE /\ Cardinality({i \in 1..FirstFrom : IsKeyWordAt(i, "AS")}) = Len(tuple)
                    /\ \A k \in 1..Len(tuple) :
                          LET a == AsAt(k)
                              e == exprSerialize(tuple[k].expr)
                          IN  /\ a > Len(e)
                              /\ SubSeq(tokens, a - Len(e), a - 1) = e
                              /\ tokens[a + 1] = identifier(tuple[k].name, FALSE)
                              /\ IF k < Len(tuple)
                                 THEN tokens[a + 2] = specialCharacter(",")
                                 ELSE a + 2 = FirstFrom
            /\ \A i, j \in (FirstFrom + 1)..n :
                  (i < j /\ TokenRank(i) > 0 /\ TokenRank(j) > 0) => TokenRank(i) <= TokenRank(j)
            /\ IsSet(st.where) <=> HasClause("WHERE")
            /\ IsSet(st.groupBy) <=> HasClause("GROUP BY")
            /\ IsSet(st.having) <=> HasClause("HAVING")
            /\ (Len(st.windows) > 0) <=> HasClause("WINDOW")
            /\ CountKeyWords({"UNION", "INTERSECT", "EXCEPT"}) = Len(st.setOps)
            /\ IsSet(st.orderBy) <=> HasClause("ORDER BY")
            /\ (IsSet(st.limit) \/ IsSet(st.offset) \/ IsSet(st.fetch))
                  <=> (HasClause("LIMIT") \/ HasClause("OFFSET") \/ HasClause("FETCH NEXT"))
            /\ ~IsSet(st.limit) => ~HasClause("LIMIT")
            /\ ~IsSet(st.offset) => ~HasClause("OFFSET")
            /\ ~IsSet(st.fetch) => ~HasClause("FETCH NEXT")
            /\ CountKeyWords({"FOR"}) = Len(st.locks)

\* orderBy and where called in the reverse of their clause order
C10_Witness ==
    /\ pc = "tokens"
    /\ calls = <<"orderBy", "where">>
    /\ Len(query.tuple) = 2
    /\ HasClause("WHERE") /\ HasClause("ORDER BY")

--------------------------------------------------------------------------
(* select.ts: the objects behind a query.  A SubqueryImpl refers to its     *)
(* state object, and the state object to its windows, setOps and locks      *)
(* arrays, by reference; a builder call copies references, not arrays.      *)

MaxHeld == 3         \* most queries the host keeps references to

\* the fields of SubqueryState that hold an array
ListFields == {"windows", "setOps", "locks"}

\* an object of the heap: a state object (fields) or an array (items)
StateObject(fields) == [kind |-> "state", fields |-> fields, items |-> <<>>]
ArrayObject(items) == [kind |-> "array", fields |-> <<>>, items |-> items]

\* allocation: the new object gets the next reference
New(h, object) == [heap |-> Append(h, object), ref |-> Len(h) + 1]

\* the query a reference-holding query stands for: every array reference
\* replaced by the array's present items
Deref(h, q) ==
    [from |-> q.from, tuple |-> q.tuple,
     state |-> LET fields == h[q.state].fields
               IN  [f \in DOMAIN fields |->
                       IF f \in ListFields THEN h[fields[f]].items ELSE fields[f]]]

\* SubqueryImpl.make: initState holds three fresh empty arrays
makeOnHeap(h, from, tuple) ==
    LET w == New(h, ArrayObject(<<>>))
        s == New(w.heap, ArrayObject(<<>>))
        l == New(s.heap, ArrayObject(<<>>))
        o == New(l.heap, StateObject([f \in DOMAIN initState |->
                            CASE f = "windows" -> w.ref
                              [] f = "setOps" -> s.ref
                              [] f = "locks" -> l.ref
                              [] OTHER -> initState[f]]))
    IN  [heap |-> o.heap, query |-> [from |-> from, tuple |-> tuple, state |-> o.ref]]

\* Array.prototype.push: the receiver array itself grows
concatPush(h, items, item) ==
    [heap |-> [h EXCEPT ![items].items = Append(@, item)], ref |-> items]

\* Array.prototype.concat: a new array, the receiver array untouched
concat(h, items, item) == New(h, ArrayObject(Append(h[items].items, item)))

\* update(newState): a new state object {...this.state, ...newState} and a
\* new SubqueryImpl around it; fields not in newState keep their references
updateOnHeap(h, this, newState) ==
    LET old == h[this.state].fields
        o == New(h, StateObject([f \in DOMAIN old |->
                        IF f \in DOMAIN newState THEN newState[f] ELSE old[f]]))
    IN  [heap |-> o.heap, query |-> [this EXCEPT !.state = o.ref]]

\* a builder method on a query of the heap.  result is what the method
\* computes from the receiver's present state; appended names the array the
\* method extends with concat ("" for a method that only sets fields).
methodOnHeap(h, this, result, appended) ==
    LET old == h[this.state].fields
    IN  IF appended = ""
        THEN updateOnHeap(h, this,
                [f \in DOMAIN old \ ListFields |-> result.state[f]])
        ELSE LET items == result.state[appended]
                 c == concat(h, old[appended], items[Len(items)])
             IN  updateOnHeap(c.heap, this, [f \in {appended} |-> c.ref])

\* from.select(proj): the first query the host holds
SelectHeld ==
    /\ pc = "start"
    /\ LET r == makeOnHeap(heap, Posts, <<[name |-> "id", expr |-> PostId]>>)
       IN  heap' = r.heap /\ held' = <<r.query>>
    /\ pc' = "held"
    /\ UNCHANGED <<tokens, sql, op, expr, types, params, picked, record, packed, query, calls, static, fromItem, tuples>>

\* the host calls a builder method on its i-th query and keeps the result
\* next to the queries it already holds
Derive(i, method, result, appended) ==
    /\ pc = "held"
    /\ Len(held) < MaxHeld
    /\ LET r == methodOnHeap(heap, held[i], result, appended)
       IN  heap' = r.heap /\ held' = Append(held, r.query)
    /\ calls' = Append(calls, method)
    /\ UNCHANGED <<pc, tokens, sql, op, expr, types, params, picked, record, packed, query, static, fromItem, tuples>>

Receiver(i) == Deref(heap, held[i])
Condition == eq(PostId, constant("1", "number"))

DeriveDistinct == \E i \in 1..Len(held) : Derive(i, "distinct", distinct(Receiver(i)), "")
DeriveDistinctOn ==
    \E i \in 1..Len(held) : Derive(i, "distinctOn", distinctOn(Receiver(i), <<PostId>>), "")
DeriveWhere == \E i \in 1..Len(held) : Derive(i, "where", where(Receiver(i), Condition), "")
DeriveGroupBy ==
    \E i \in 1..Len(held) : Derive(i, "groupBy", groupBy(Receiver(i), TreeExpr(PostId)), "")
DeriveGroupByDistinct ==
    \E i \in 1..Len(held) :
        Derive(i, "groupByDistinct", groupByDistinct(Receiver(i), TreeExpr(PostId)), "")
DeriveRollup ==
    \E i \in 1..Len(held) : Derive(i, "rollup", rollupBy(Receiver(i), <<TreeExpr(PostId)>>), "")
DeriveCube ==
    \E i \in 1..Len(held) : Derive(i, "cube", cubeBy(Receiver(i), <<TreeExpr(PostName)>>), "")
DeriveGroupingSets ==
    \E i \in 1..Len(held) :
        Derive(i, "groupingSets", groupingSetsBy(Receiver(i), <<TreeArray(<<PostId>>)>>), "")
DeriveHaving == \E i \in 1..Len(held) : Derive(i, "having", having(Receiver(i), Condition), "")
DeriveWindow ==
    \E i \in 1..Len(held) :
        Derive(i, "window",
               windowAs(Receiver(i), "w", FALSE, "",
                        [partitionBy |-> <<PostId>>, orderBy |-> <<>>, frame |-> <<>>],
                        <<>>).query,
               "windows")
DeriveUnion ==
    \E i \in 1..Len(held), other \in Operands :
        Derive(i, "union", union(Receiver(i), other), "setOps")
DeriveUnionAll ==
    \E i \in 1..Len(held), other \in Operands :
        Derive(i, "unionAll", unionAll(Receiver(i), other), "setOps")
DeriveIntersect ==
    \E i \in 1..Len(held), other \in Operands :
        Derive(i, "intersect", intersect(Receiver(i), other), "setOps")
DeriveIntersectAll ==
    \E i \in 1..Len(held), other \in Operands :
        Derive(i, "intersectAll", intersectAll(Receiver(i), other), "setOps")
DeriveExcept ==
    \E i \in 1..Len(held), other \in Operands :
        Derive(i, "except", except(Receiver(i), other), "setOps")
DeriveExceptAll ==
    \E i \in 1..Len(held), other \in Operands :
        Derive(i, "exceptAll", exceptAll(Receiver(i), other), "setOps")
DeriveOrderBy ==
    \E i \in 1..Len(held) :
        Derive(i, "orderBy", orderBy(Receiver(i), <<BareOrder(PostId)>>), "")
DeriveOffset == \E i \in 1..Len(held) : Derive(i, "offset", offset(Receiver(i), 0), "")
DeriveLimit == \E i \in 1..Len(held) : Derive(i, "limit", limit(Receiver(i), 2), "")
DeriveFetch == \E i \in 1..Len(held) : Derive(i, "fetch", fetch(Receiver(i), 2, ""), "")
DeriveFor ==
    \E i \in 1..Len(held) : Derive(i, "for", for(Receiver(i), "UPDATE", ""), "locks")


\* serialize() that empties the arrays it walks (shift() in place of for..of)
serializeOnHeapShifting(h, q) ==
    LET fields == h[q.state].fields
    IN  [heap |-> [h EXCEPT ![fields.setOps].items = <<>>, ![fields.locks].items = <<>>],
         tokens |-> subquerySerialize(Deref(h, q))]

\* SubqueryImpl.serialize() on a query of the heap: it reads this.state and
\* pushes onto arrays it has allocated itself only
serializeOnHeap(h, q) == [heap |-> h, tokens |-> subquerySerialize(Deref(h, q))]

\* unlex(held[i].serialize()): the host keeps the query it serialized in
\* query, and the outcome in tokens and sql
SerializeHeld ==
    /\ pc = "held"
    /\ \E i \in 1..Len(held) :
          LET r == serializeOnHeap(heap, held[i])
          IN  /\ heap' = r.heap
              /\ query' = held[i]
              /\ IF Threw(r.tokens)
                 THEN tokens' = <<>> /\ sql' = Thrown("Recieved FETCH without OFFSET")
                 ELSE tokens' = r.tokens /\ sql' = unlex(r.tokens)
    /\ UNCHANGED <<pc, op, expr, types, params, picked, record, packed, calls, static, held, fromItem, tuples>>

InitShared ==
    /\ pc = "start"
    /\ IdleLex /\ IdleOp /\ IdleExpr /\ IdleParams /\ IdleQuery

NextShared ==
    \/ SelectHeld
    \/ DeriveDistinct
    \/ DeriveDistinctOn
    \/ DeriveWhere
    \/ DeriveGroupBy
    \/ DeriveGroupByDistinct
    \/ DeriveRollup
    \/ DeriveCube
    \/ DeriveGroupingSets
    \/ DeriveHaving
    \/ DeriveWindow
    \/ DeriveUnion
    \/ DeriveUnionAll
    \/ DeriveIntersect
    \/ DeriveIntersectAll
    \/ DeriveExcept
    \/ DeriveExceptAll
    \/ DeriveOrderBy
    \/ DeriveOffset
    \/ DeriveLimit
    \/ DeriveFetch
    \/ DeriveFor

SpecShared == InitShared /\ [][NextShared]_vars

\* the host builds queries with some clauses of every kind (a condition, a
\* window, a set-op, an order, a pagination, a lock) and serializes them
NextPure ==
    \/ SelectHeld
    \/ DeriveWhere
    \/ DeriveWindow
    \/ DeriveUnion
    \/ DeriveOrderBy
    \/ DeriveOffset
    \/ DeriveFetch
    \/ DeriveFor
    \/ SerializeHeld

SpecPure == InitShared /\ [][NextPure]_vars

\* C11: a builder call leaves every query the host already holds as it was:
\* the same state, list by list, and the same serialisation; the query it
\* returns has a state object of its own.
C11_ReceiverUnchanged ==
    [][(pc = "held" /\ calls' # calls) =>
          \A i \in 1..Len(held) :
              /\ held'[i] = held[i]
              /\ Deref(heap', held[i]) = Deref(heap, held[i])
              /\ subquerySerialize(Deref(heap', held[i]))
                    = subquerySerialize(Deref(heap, held[i]))
              /\ held'[Len(held')].state # held[i].state]_vars

\* two queries derived from the first one, each through a list-extending
\* method, with the first one still holding empty lists
C11_Witness ==
    /\ Len(held) = 3
    /\ calls = <<"union", "for">>
    /\ Deref(heap, held[1]).state = initState
    /\ Len(Deref(heap, held[2]).state.setOps) = 1
    /\ Len(Deref(heap, held[2]).state.locks) = 0
    /\ Len(Deref(heap, held[3]).state.setOps) = 0
    /\ Len(Deref(heap, held[3]).state.locks) = 1

--------------------------------------------------------------------------
(* Scalar subqueries: query.scalar() *)

\* scalar() with the arity check left out
scalarAnyArity(this) == [ok |-> TRUE, expr |-> SubqueryExpr(this)]

\* scalar(): the SubqueryExpr over this query's own serialize, or the Error
\* 'Scalar subqueries must return exactly one column'
scalar(this) ==
    IF Len(this.tuple) # 1
    THEN [ok |-> FALSE, expr |-> NoExpr]
    ELSE [ok |-> TRUE, expr |-> SubqueryExpr(this)]

\* the host calls scalar() on the query it holds
Scalar ==
    /\ pc = "query"
    /\ LET r == scalar(query)
       IN  /\ expr' = r.expr
           /\ pc' = IF r.ok THEN "expr" ELSE "threw"
    /\ calls' = Append(calls, "scalar")
    /\ UNCHANGED <<tokens, sql, op, types, params, picked, record, packed, query, static, heap, held, fromItem, tuples>>

NextScalar ==
    \/ Select
    \/ CallWhere
    \/ CallUnion
    \/ CallOrderBy
    \/ CallLimit
    \/ CallFor
    \/ Scalar
    \/ SerializeExpr
    \/ Unlex

SpecScalar == InitQuery /\ [][NextScalar]_vars

ScalarCalled == calls # <<>> /\ calls[Len(calls)] = "scalar"

\* C13: scalar() succeeds exactly when the projection has exactly one field;
\* otherwise it throws and no expression exists; a scalar subquery renders
\* as the query's own SQL text inside one pair of parentheses.
C13_ScalarArity ==
    ScalarCalled =>
        /\ pc # "threw" <=> Len(query.tuple) = 1
        /\ pc = "threw" => expr = NoExpr
        /\ pc # "threw" => expr.node = "SubqueryExpr" /\ expr.subquery = query
        /\ pc = "rendered" =>
              /\ sql.ok
              /\ sql.text = "(" \o unlex(subquerySerialize(query)).text \o ")"

C13_Witness ==
    /\ ScalarCalled
    /\ pc = "rendered"
    /\ Len(query.state.setOps) = 1
    /\ sql.ok
    /\ sql.text = "(" \o unlex(subquerySerialize(query)).text \o ")"


\* the query in hand has FETCH set and OFFSET never set
FetchWithoutOffset ==
    /\ pc \in {"query", "tokens", "threw"}
    /\ IsSet(query.state.fetch)
    /\ ~IsSet(query.state.offset)

\* C14: a query with FETCH set and OFFSET never set is rejected when it is
\* serialized, whatever its other clauses: serialize throws and no token
\* list is ever produced for it.
C14_FetchNeedsOffset ==
    FetchWithoutOffset =>
        /\ pc # "tokens"
        /\ tokens = <<>>
        /\ Threw(subquerySerialize(query))

C14_Witness ==
    /\ FetchWithoutOffset
    /\ pc = "threw"
    /\ calls = <<"where", "fetch">>
    /\ IsSet(query.state.where)
    /\ tokens = <<>>


--------------------------------------------------------------------------
(* Aggregates: new Aggregate(..), agg(..) and their methods *)

\* the Aggregate constructor refusing an order list only
newAggregateOrderOnly(functionName, args, doDistinct, order, filter) ==
    IF Len(args) = 0 /\ IsSet(order)
    THEN [ok |-> FALSE, expr |-> NoExpr]
    ELSE [ok |-> TRUE, expr |-> Aggregate(functionName, args, doDistinct, order, filter)]

\* new Aggregate(functionName, args, doDistinct?, order?, filter?): with no
\* args, an order that is set (an empty array too) or a true doDistinct
\* throws before the object exists
newAggregate(functionName, args, doDistinct, order, filter) ==
    IF Len(args) = 0 /\ (IsSet(order) \/ doDistinct = <<TRUE>>)
    THEN [ok |-> FALSE, expr |-> NoExpr]
    ELSE [ok |-> TRUE, expr |-> Aggregate(functionName, args, doDistinct, order, filter)]

aggregateDistinct(this) ==
    newAggregate(this.functionName, this.args, <<TRUE>>, this.order, this.filter)
aggregateOrderBy(this, order) ==
    newAggregate(this.functionName, this.args, this.doDistinct, Some(order), this.filter)
aggregateFilterWhere(this, filter) ==
    newAggregate(this.functionName, this.args, this.doDistinct, this.order, Some(filter))
orderedSetFilterWhere(this, filter) ==
    OrderedSetAggregate(this.functionName, this.args, this.order, Some(filter))

\* agg(name, args) and agg(name, args, 'WITHIN GROUP', orderBy)
agg(name, args, orderArgs) ==
    IF ~IsSet(orderArgs) THEN newAggregate(name, args, <<>>, <<>>, <<>>)
    ELSE [ok |-> TRUE, expr |-> OrderedSetAggregate(name, args, orderArgs[1], <<>>)]

AggArgs == {<<>>, <<PostId>>, <<PostId, PostName>>}
AggOrders ==
    { <<>>,
      <<asc(PostName, "")>>,
      <<desc(PostName, "NULLS LAST"), OrderArg(PostId, <<>>, "")>> }
AggFilter == eq(PostId, constant("1", "number"))
HalfFraction == constant("0.5", "number")

InitAggregate ==
    /\ pc = "start"
    /\ IdleLex /\ IdleOp /\ IdleExpr /\ IdleParams /\ IdleQuery

\* one call of the host: the result replaces the expression in hand; when
\* the call throws the host is left with what it had
Invoke(call, r) ==
    /\ Len(calls) <= MaxCalls
    /\ calls' = Append(calls, call)
    /\ expr' = IF r.ok THEN r.expr ELSE expr
    /\ pc' = IF r.ok THEN "expr" ELSE "threw"
    /\ UNCHANGED <<tokens, sql, op, types, params, picked, record, packed, query, static, heap, held, fromItem, tuples>>

NewAggregate ==
    /\ pc = "start"
    /\ \E args \in AggArgs, doDistinct \in {<<>>, <<TRUE>>, <<FALSE>>},
          order \in {<<>>} \cup {Some(o) : o \in AggOrders},
          filter \in {<<>>, Some(AggFilter)} :
          Invoke([method |-> "new", args |-> args, doDistinct |-> doDistinct,
                  order |-> order, filter |-> filter],
                 newAggregate("count", args, doDistinct, order, filter))

CallAgg ==
    /\ pc = "start"
    /\ \/ \E args \in AggArgs :
            Invoke([method |-> "agg", args |-> args], agg("count", args, <<>>))
       \/ \E order \in AggOrders \ {<<>>} :
            Invoke([method |-> "agg", args |-> <<HalfFraction>>],
                   agg("percentile_cont", <<HalfFraction>>, Some(order)))

AggregateDistinct ==
    /\ pc = "expr" /\ expr.node = "Aggregate"
    /\ Invoke([method |-> "distinct", this |-> expr], aggregateDistinct(expr))

AggregateOrderBy ==
    /\ pc = "expr" /\ expr.node = "Aggregate"
    /\ \E order \in AggOrders :
          Invoke([method |-> "orderBy", this |-> expr], aggregateOrderBy(expr, order))

AggregateFilterWhere ==
    /\ pc = "expr" /\ expr.node = "Aggregate"
    /\ Invoke([method |-> "filterWhere", this |-> expr],
              aggregateFilterWhere(expr, AggFilter))

OrderedSetFilterWhere ==
    /\ pc = "expr" /\ expr.node = "OrderedSetAggregate"
    /\ Invoke([method |-> "filterWhere", this |-> expr],
              [ok |-> TRUE, expr |-> orderedSetFilterWhere(expr, AggFilter)])

NextAggregate ==
    \/ NewAggregate
    \/ CallAgg
    \/ AggregateDistinct
    \/ AggregateOrderBy
    \/ AggregateFilterWhere
    \/ OrderedSetFilterWhere
    \/ SerializeExpr
    \/ Unlex

SpecAggregate == InitAggregate /\ [][NextAggregate]_vars

LastCall == calls[Len(calls)]
ThrewOn(method) == calls # <<>> /\ LastCall.method = method /\ pc = "threw"
ReturnedFrom(method) == calls # <<>> /\ LastCall.method = method /\ pc = "expr"

\* C15: an argumentless plain aggregate never carries DISTINCT or an order
\* list: the constructor, distinct() and orderBy(..) throw for it, while
\* filterWhere(..) succeeds; with at least one argument all of them succeed.
C15_ArgumentlessAggregate ==
    /\ (pc \in {"expr", "tokens", "rendered"} /\ expr.node = "Aggregate"
           /\ Len(expr.args) = 0)
          => expr.doDistinct # <<TRUE>> /\ ~IsSet(expr.order)
    /\ (calls # <<>> /\ pc \in {"expr", "threw"} /\ LastCall.method = "new") =>
          (pc = "threw" <=>
              /\ Len(LastCall.args) = 0
              /\ (LastCall.doDistinct = <<TRUE>> \/ IsSet(LastCall.order)))
    /\ (calls # <<>> /\ pc \in {"expr", "threw"}
           /\ LastCall.method \in {"distinct", "orderBy"}
           /\ LastCall.this.node = "Aggregate") =>
          /\ pc = "threw" <=> Len(LastCall.this.args) = 0
          /\ pc = "threw" => expr = LastCall.this
          /\ ReturnedFrom("distinct") => expr.doDistinct = <<TRUE>>
          /\ ReturnedFrom("orderBy") => IsSet(expr.order)
    /\ ~ThrewOn("filterWhere")
    /\ ReturnedFrom("filterWhere") => expr.filter = Some(AggFilter)

C15_Witness ==
    /\ ThrewOn("distinct")
    /\ Len(calls) = 3
    /\ calls[2].method = "filterWhere"
    /\ Len(expr.args) = 0
    /\ expr.filter = Some(AggFilter)


\* the aggregate in hand has a non-empty order list
HasOrderList(e) ==
    \/ e.node = "OrderedSetAggregate" /\ Len(e.order) > 0
    \/ e.node = "Aggregate" /\ IsSet(e.order) /\ Len(e.order[1]) > 0

\* the documented rendering of an aggregate with an order list:
\* fn(directArgs) WITHIN GROUP (ORDER BY o1, ..) [FILTER (WHERE p)] and
\* fn([DISTINCT] args ORDER BY o1, ..) [FILTER (WHERE p)]
DocumentedAggregate(e) ==
    IF e.node = "OrderedSetAggregate"
    THEN <<identifier(e.functionName, FALSE), specialCharacter("(")>>
            \o commaSeparate(serializeArgs(e.args))
            \o <<specialCharacter(")"), keyWord("WITHIN GROUP"), specialCharacter("("),
                 keyWord("ORDER BY")>>
            \o serializeOrderBy(e.order)
            \o <<specialCharacter(")")>>
            \o serializeFilterWhere(e.filter)
    ELSE <<identifier(e.functionName, FALSE), specialCharacter("(")>>
            \o (IF e.doDistinct = <<TRUE>> THEN <<keyWord("DISTINCT")>> ELSE <<>>)
            \o commaSeparate(serializeArgs(e.args))
            \o <<keyWord("ORDER BY")>>
            \o serializeOrderBy(e.order[1])
            \o <<specialCharacter(")")>>
            \o serializeFilterWhere(e.filter)

\* C18: the order list of an aggregate is introduced by the ORDER BY
\* keyword, inside WITHIN GROUP ( .. ) for an ordered-set aggregate and
\* after the arguments for a plain one, and FILTER (WHERE p) comes last.
C18_OrderByKeyword ==
    (pc \in {"tokens", "rendered"} /\ HasOrderList(expr)) =>
        /\ tokens = DocumentedAggregate(expr)
        /\ pc = "rendered" => sql = unlex(DocumentedAggregate(expr))


\* the host has stayed inside the declared types
WellTyped == pc \in {"query", "tokens", "threw"} /\ static.stage \notin {"none", "any"}

HasKeyWordIn(toks, words) ==
    \E i \in 1..Len(toks) : toks[i].type = "KeyWord" /\ toks[i].value \in words

--------------------------------------------------------------------------
(* Joins built through the From surface *)

MaxJoins == 2        \* most join methods called on the From in hand

Comments == Table("c", "comments")
Tags == Table("t", "tags")
\* what is joined in: a table, or a join built beforehand
JoinOperands == {Drafts, crossJoin(Comments, Tags)}
JoinCondition == eq(PostId, field("d", "id"))

InitFrom ==
    /\ pc = "start"
    /\ IdleLex /\ IdleOp /\ IdleExpr /\ IdleParams /\ IdleQuery

\* table(..).as(alias)
TableAs ==
    /\ pc = "start"
    /\ \E t \in {Posts, Drafts} : fromItem' = t
    /\ pc' = "from"
    /\ UNCHANGED <<tokens, sql, op, expr, types, params, picked, record, packed, query, calls, static, heap, held, tuples>>

\* one join method called on the From in hand; the host keeps the result
JoinCall(method, other, result) ==
    /\ pc = "from"
    /\ Len(calls) < MaxJoins
    /\ fromItem' = result
    /\ calls' = Append(calls, [method |-> method, this |-> fromItem, other |-> other])
    /\ UNCHANGED <<pc, tokens, sql, op, expr, types, params, picked, record, packed, query, static, heap, held, tuples>>

CallJoin == \E other \in JoinOperands : JoinCall("join", other, join(fromItem, other, JoinCondition))
CallLateral ==
    \E other \in JoinOperands : JoinCall("lateral", other, lateral(fromItem, other, JoinCondition))
CallLeftJoin ==
    \E other \in JoinOperands : JoinCall("leftJoin", other, leftJoin(fromItem, other, JoinCondition))
CallLeftJoinLateral ==
    \E other \in JoinOperands :
        JoinCall("leftJoinLateral", other, leftJoinLateral(fromItem, other, JoinCondition))
CallRightJoin ==
    \E other \in JoinOperands : JoinCall("rightJoin", other, rightJoin(fromItem, other, JoinCondition))
CallFullJoin ==
    \E other \in JoinOperands : JoinCall("fullJoin", other, fullJoin(fromItem, other, JoinCondition))
CallCrossJoin == \E other \in JoinOperands : JoinCall("crossJoin", other, crossJoin(fromItem, other))
CallCrossJoinLateral ==
    \E other \in JoinOperands : JoinCall("crossJoinLateral", other, crossJoinLateral(fromItem, other))

\* from.serialize()
SerializeFrom ==
    /\ pc = "from"
    /\ tokens' = fromSerialize(fromItem)
    /\ pc' = "tokens"
    /\ UNCHANGED <<sql, op, expr, types, params, picked, record, packed, query, calls, static, heap, held, fromItem, tuples>>

NextFrom ==
    \/ TableAs
    \/ CallJoin
    \/ CallLateral
    \/ CallLeftJoin
    \/ CallLeftJoinLateral
    \/ CallRightJoin
    \/ CallFullJoin
    \/ CallCrossJoin
    \/ CallCrossJoinLateral
    \/ SerializeFrom

SpecFrom == InitFrom /\ [][NextFrom]_vars

LateralMethods == {"lateral", "leftJoinLateral", "crossJoinLateral"}
CrossMethods == {"crossJoin", "crossJoinLateral"}
JoinTypeOf(method) ==
    CASE method \in {"join", "lateral"} -> "INNER"
      [] method \in {"leftJoin", "leftJoinLateral"} -> "LEFT"
      [] method = "rightJoin" -> "RIGHT"
      [] method = "fullJoin" -> "FULL"

IsSpecial(tok, char) == tok.type = "SpecialCharacter" /\ tok.value = char
ParenDepth(toks, k) ==
    Cardinality({i \in 1..k : IsSpecial(toks[i], "(")})
        - Cardinality({i \in 1..k : IsSpecial(toks[i], ")")})
\* one parenthesised group: the opening token is closed by the last one
OneGroup(toks) ==
    /\ Len(toks) >= 2
    /\ IsSpecial(toks[1], "(")
    /\ \A k \in 1..(Len(toks) - 1) : ParenDepth(toks, k) > 0
    /\ ParenDepth(toks, Len(toks)) = 0

\* C17: a join serialises to one parenthesised group ( L type JOIN
\* [LATERAL] R ON pred ), a cross join to ( L CROSS JOIN [LATERAL] R ) with
\* no ON; LATERAL is there exactly when a lateral method built the join,
\* and nesting keeps the parentheses balanced.
C17_JoinGroup ==
    (pc = "tokens" /\ calls # <<>>) =>
        LET m == LastCall.method
            lateralTokens == IF m \in LateralMethods THEN <<keyWord("LATERAL")>> ELSE <<>>
            l == fromSerialize(LastCall.this)
            r == fromSerialize(LastCall.other)
        IN  /\ OneGroup(tokens)
            /\ m \in CrossMethods =>
                  tokens = <<specialCharacter("(")>> \o l \o <<keyWord("CROSS JOIN")>>
                              \o lateralTokens \o r \o <<specialCharacter(")")>>
            /\ m \notin CrossMethods =>
                  tokens = <<specialCharacter("(")>> \o l
                              \o <<keyWord(JoinTypeOf(m)), keyWord("JOIN")>>
                              \o lateralTokens \o r
                              \o <<keyWord("ON")>> \o exprSerialize(JoinCondition)
                              \o <<specialCharacter(")")>>

C17_Witness ==
    /\ pc = "tokens"
    /\ Len(calls) = 2
    /\ calls[1].method = "crossJoin"
    /\ calls[2].method = "leftJoinLateral"
    /\ calls[2].other.kind = "CrossJoin"
    /\ OneGroup(tokens)
    /\ HasKeyWordIn(tokens, {"LATERAL"})


--------------------------------------------------------------------------
(* ANY / ALL comparisons and casts *)

MaxWraps == 1        \* most any / all / castAs calls applied to the expression in hand

\* types.ts: a type value carries its name
makeType(name) == [name |-> name]
arrayType(child) == makeType(child.name \o "[]")
text == makeType("text")
timestampWithTimeZone == makeType("timestamp with time zone")
RegistryTypes ==
    { text, makeType("number"), makeType("boolean"), makeType("bytea"),
      timestampWithTimeZone, makeType("uuid"), makeType("json"), makeType("jsonb"),
      makeType("xml"), arrayType(text), arrayType(timestampWithTimeZone) }

One == constant("1", "number")
DraftIds == make(Drafts, <<[name |-> "id", expr |-> field("d", "id")]>>)
\* the right-hand side of any / all: an array expression or a subquery
ArrayOperands ==
    { array(<<One, constant("2", "number"), constant("3", "number")>>),
      DraftIds,
      where(DraftIds, eq(field("d", "id"), One)) }
ComparisonOperators == {"=", "<>"}

InitWrap ==
    /\ pc = "start"
    /\ IdleLex /\ IdleOp /\ IdleExpr /\ IdleParams /\ IdleQuery

MakeNumber == Make(One)

\* one method called on the expression in hand; the host keeps the result
Wrap(call, e) ==
    /\ pc = "expr"
    /\ Len(calls) < MaxWraps
    /\ calls' = Append(calls, call)
    /\ expr' = e
    /\ UNCHANGED <<pc, tokens, sql, op, types, params, picked, record, packed, query, static, heap, held, fromItem, tuples>>

CallAny ==
    \E o \in ComparisonOperators, arrayExpr \in ArrayOperands :
        Wrap([method |-> "any", this |-> expr, op |-> o, arrayExpr |-> arrayExpr],
             any(expr, o, arrayExpr))
CallAll ==
    \E o \in ComparisonOperators, arrayExpr \in ArrayOperands :
        Wrap([method |-> "all", this |-> expr, op |-> o, arrayExpr |-> arrayExpr],
             all(expr, o, arrayExpr))
CallCastAs ==
    \E type \in RegistryTypes :
        Wrap([method |-> "castAs", this |-> expr, type |-> type], castAs(expr, type))

NextWrap ==
    \/ MakeNumber
    \/ MakeField
    \/ CallAny
    \/ CallAll
    \/ CallCastAs
    \/ SerializeExpr
    \/ Unlex

SpecWrap == InitWrap /\ [][NextWrap]_vars

\* the SQL text of a Serializable on its own
Rendering(x) == unlex(serializableSerialize(x))

RenderedAfter(methods) ==
    pc = "rendered" /\ calls # <<>> /\ LastCall.method \in methods

\* C19: x.any(op, operand) renders (x op ANY(operand)) and x.all(..)
\* renders (x op ALL(operand)): the operand, array or subquery, sits in
\* exactly one pair of parentheses right after the keyword, and the whole
\* comparison in one outer pair.
C19_AnyAllRendering ==
    (/\ RenderedAfter({"any", "all"})
     /\ Rendering(LastCall.this).ok
     /\ Rendering(LastCall.arrayExpr).ok) =>
        /\ sql.ok
        /\ sql.text = "(" \o Rendering(LastCall.this).text \o " " \o LastCall.op \o " "
                        \o (IF LastCall.method = "any" THEN "ANY" ELSE "ALL")
                        \o "(" \o Rendering(LastCall.arrayExpr).text \o "))"

\* C20: e.castAs(type) renders CAST(render(e) AS name) with the type's
\* name verbatim and unquoted, for every type of the registry.
C20_CastRendering ==
    (RenderedAfter({"castAs"}) /\ Rendering(LastCall.this).ok) =>
        /\ sql.ok
        /\ sql.text = "CAST(" \o Rendering(LastCall.this).text \o " AS "
                        \o LastCall.type.name \o ")"


--------------------------------------------------------------------------
(* The three lists of a query: windows, set-ops and locks *)

MaxAppends == 3      \* most window / set-op / for calls made on the query in hand

WindowNames == {"w", "v"}
\* the params handed to as(..): partitionBy with an order list and a frame
FullParams == [partitionBy |-> <<PostId>>, orderBy |-> Some(<<BareOrder(PostId)>>),
               frame |-> Some(CHOOSE f \in Frames : TRUE)]

\* one call on the query in hand, logged with its arguments and outcome
Logged(call, r, method) ==
    /\ pc = "query"
    /\ Len(calls) < MaxAppends
    /\ query' = r.query
    /\ pc' = IF r.ok THEN "query" ELSE "threw"
    /\ calls' = Append(calls, call)
    /\ static' = ReturnType(static, method)
    /\ UNCHANGED <<tokens, sql, op, expr, types, params, picked, record, packed, heap, held, fromItem, tuples>>

\* query.window(name).as(params)
WindowFresh ==
    \E name \in WindowNames :
        LET r == windowAs(query, name, FALSE, "", FullParams, <<>>)
        IN  Logged([method |-> "window", name |-> name, existing |-> "", given |-> TRUE,
                    ok |-> r.ok], r, "window")

\* query.window(name).as(existingWindowName, params?)
WindowRef ==
    \E name \in WindowNames, given \in BOOLEAN :
        LET r == windowAs(query, name, TRUE, "base", FullParams,
                          IF given THEN Some(FullParams) ELSE <<>>)
        IN  Logged([method |-> "window", name |-> name, existing |-> "base",
                    given |-> given, ok |-> r.ok], r, "window")

AppendSetOp ==
    \/ Logged([method |-> "union", type |-> "UNION", all |-> FALSE, ok |-> TRUE],
              [ok |-> TRUE, query |-> union(query, CHOOSE o \in Operands : TRUE)], "union")
    \/ Logged([method |-> "exceptAll", type |-> "EXCEPT", all |-> TRUE, ok |-> TRUE],
              [ok |-> TRUE, query |-> exceptAll(query, CHOOSE o \in Operands : TRUE)],
              "exceptAll")

AppendFor ==
    \E strength \in Strengths :
        Logged([method |-> "for", strength |-> strength, ok |-> TRUE],
               [ok |-> TRUE, query |-> for(query, strength, "")], "for")

NextAppend ==
    \/ Select
    \/ WindowFresh
    \/ WindowRef
    \/ AppendSetOp
    \/ AppendFor
    \/ SerializeQuery

SpecAppend == InitQuery /\ [][NextAppend]_vars

QueryInHand == pc \in {"query", "tokens", "threw"}

\* C21: no query holds two window entries with the same name; a second
\* window(name).as(..) with a name already attached is rejected.
C21_UniqueWindowNames ==
    QueryInHand =>
        \A i, j \in 1..Len(query.state.windows) :
            query.state.windows[i].name = query.state.windows[j].name => i = j


\* the calls of one kind that returned, in call order
WindowCalls == SelectSeq(calls, LAMBDA c : c.method = "window" /\ c.ok)
SetOpCalls == SelectSeq(calls, LAMBDA c : c.method \in SetOpMethods)
ForCalls == SelectSeq(calls, LAMBDA c : c.method = "for")

\* what the token list names, in token order: the windows defined, the
\* set-op keywords and the lock strengths
WindowTokens ==
    SelectSeq(tokens, LAMBDA t : t.type = "Identifier" /\ t.value \in WindowNames)
SetOpTokens ==
    SelectSeq(tokens, LAMBDA t : t.type = "KeyWord" /\ t.value \in {"UNION", "EXCEPT"})
LockTokens ==
    SelectSeq(tokens, LAMBDA t : t.type = "KeyWord" /\ t.value \in Strengths)

\* C23: each of window(..).as(..), the set-op combinators and for(..)
\* appends one entry to the end of its own list and leaves the other two
\* alone, so each list holds its entries in call order, and serialisation
\* emits windows, set-ops and locks in that order.
C23_ListsInCallOrder ==
    QueryInHand =>
        LET state == query.state
        IN  /\ Len(state.windows) = Len(WindowCalls)
            /\ \A i \in 1..Len(WindowCalls) :
                  /\ state.windows[i].name = WindowCalls[i].name
                  /\ state.windows[i].existingWindowName = WindowCalls[i].existing
            /\ Len(state.setOps) = Len(SetOpCalls)
            /\ \A i \in 1..Len(SetOpCalls) :
                  /\ state.setOps[i].type = SetOpCalls[i].type
                  /\ state.setOps[i].all = SetOpCalls[i].all
            /\ Len(state.locks) = Len(ForCalls)
            /\ \A i \in 1..Len(ForCalls) : state.locks[i].strength = ForCalls[i].strength
            /\ pc = "tokens" =>
                  /\ [i \in 1..Len(WindowTokens) |-> WindowTokens[i].value]
                        = [i \in 1..Len(WindowCalls) |-> WindowCalls[i].name]
                  /\ [i \in 1..Len(SetOpTokens) |-> SetOpTokens[i].value]
                        = [i \in 1..Len(SetOpCalls) |-> SetOpCalls[i].type]
                  /\ [i \in 1..Len(LockTokens) |-> LockTokens[i].value]
                        = [i \in 1..Len(ForCalls) |-> ForCalls[i].strength]

C23_Witness ==
    /\ pc = "tokens"
    /\ Len(calls) = 3
    /\ calls[1].method = "for" /\ calls[1].strength = "UPDATE"
    /\ calls[2].method = "window"
    /\ calls[3].method = "for" /\ calls[3].strength = "KEY SHARE"
    /\ Len(query.state.locks) = 2
    /\ Len(LockTokens) = 2

\* C27: window(name).as(existingWindowName) with params omitted does not
\* fail: it appends one reference window with no order list and no frame,
\* which renders as name AS (existingWindowName).
C27_RefWindowWithoutParams ==
    (QueryInHand /\ calls # <<>> /\ LastCall.method = "window"
        /\ LastCall.existing # "" /\ ~LastCall.given) =>
        /\ pc # "threw"
        /\ Len(query.state.windows) > 0
        /\ LET w == query.state.windows[Len(query.state.windows)]
           IN  /\ w.type = "ref" /\ w.name = LastCall.name
               /\ w.existingWindowName = LastCall.existing
               /\ ~IsSet(w.orderBy) /\ ~IsSet(w.frame)
        /\ pc = "tokens" =>
              \E i \in 1..(Len(tokens) - 4) :
                  SubSeq(tokens, i, i + 4) =
                      <<identifier(LastCall.name, FALSE), keyWord("AS"), specialCharacter("("),
                        identifier(LastCall.existing, FALSE), specialCharacter(")")>>


--------------------------------------------------------------------------
(* The tuple proxy handed to clause callbacks: tupleMap / subTuple *)

MaxAccesses == 2     \* most proxy[t][c] reads made on one tuple proxy

\* the property names every plain object {} inherits from Object.prototype;
\* `name in target` is true for them although target holds no such key
ObjectPrototypeKeys ==
    { "constructor", "hasOwnProperty", "isPrototypeOf", "propertyIsEnumerable",
      "toLocaleString", "toString", "valueOf", "__proto__", "__defineGetter__",
      "__defineSetter__", "__lookupGetter__", "__lookupSetter__" }

\* what a read can return besides an expression: the subTuple proxy of a
\* table, a member inherited from Object.prototype, or a property of such
\* a member
SubTuple(tableName) == [proxy |-> "subTuple", tableName |-> tableName]
Inherited(name) == [proxy |-> "inherited", name |-> name]
PropertyOf(value, name) == [proxy |-> "property", name |-> name]

\* `name in target`: own keys and the inherited ones
In(name, target) == name \in DOMAIN target \/ name \in ObjectPrototypeKeys

\* the get trap of subTuple's proxy, for a string fieldName
subTupleGet(target, tableName, fieldName) ==
    IF In(fieldName, target)
    THEN [target |-> target,
          value |-> IF fieldName \in DOMAIN target THEN target[fieldName]
                    ELSE Inherited(fieldName)]
    ELSE [target |-> (fieldName :> field(tableName, fieldName)) @@ target,
          value |-> field(tableName, fieldName)]

\* the get trap of tupleMap's proxy, for a string tableName; targets maps
\* each table name given a subTuple to that subTuple's target
tupleMapGet(targets, tableName) ==
    IF In(tableName, targets)
    THEN [targets |-> targets,
          value |-> IF tableName \in DOMAIN targets THEN SubTuple(tableName)
                    ELSE Inherited(tableName)]
    ELSE [targets |-> (tableName :> <<>>) @@ targets, value |-> SubTuple(tableName)]

\* proxy[tableName][fieldName]
proxyRead(targets, tableName, fieldName) ==
    LET outer == tupleMapGet(targets, tableName)
    IN  IF outer.value.proxy = "subTuple"
        THEN LET inner == subTupleGet(outer.targets[tableName], tableName, fieldName)
             IN  [targets |-> [outer.targets EXCEPT ![tableName] = inner.target],
                  value |-> inner.value]
        ELSE [targets |-> outer.targets, value |-> PropertyOf(outer.value, fieldName)]

TableNames == {"p", "user group", "constructor"}
FieldNames == {"id", "Select", "toString", "constructor"}

InitProxy ==
    /\ pc = "start"
    /\ IdleLex /\ IdleOp /\ IdleExpr /\ IdleParams /\ IdleQuery

\* tupleMap(): a proxy over an empty target
NewTupleMap ==
    /\ pc = "start"
    /\ pc' = "proxy"
    /\ UNCHANGED <<tokens, sql, op, expr, types, params, picked, record, packed, query, calls, static, heap, held, fromItem, tuples>>

\* a callback reads proxy[tableName][fieldName]
Read ==
    /\ pc \in {"proxy", "expr", "value"}
    /\ Len(calls) < MaxAccesses
    /\ \E tableName \in TableNames, fieldName \in FieldNames :
          LET r == proxyRead(tuples, tableName, fieldName)
          IN  /\ tuples' = r.targets
              /\ calls' = Append(calls, [method |-> "get", tableName |-> tableName,
                                         fieldName |-> fieldName])
              /\ IF "node" \in DOMAIN r.value
                 THEN expr' = r.value /\ pc' = "expr"
                 ELSE expr' = NoExpr /\ pc' = "value"
    /\ UNCHANGED <<tokens, sql, op, types, params, picked, record, packed, query, static, heap, held, fromItem>>

NextProxy ==
    \/ NewTupleMap
    \/ Read
    \/ SerializeExpr

SpecProxy == InitProxy /\ [][NextProxy]_vars

\* C22: for every table name t and column name c the proxy returns for
\* proxy[t][c] a column reference that serialises to (t, c), and never
\* anything else.
C22_ProxyColumnReference ==
    (calls # <<>> /\ LastCall.method = "get" /\ pc \in {"expr", "value", "tokens"}) =>
        /\ pc # "value"
        /\ expr = field(LastCall.tableName, LastCall.fieldName)
        /\ pc = "tokens" =>
              tokens = <<identifier(LastCall.tableName, FALSE), specialCharacter("."),
                         identifier(LastCall.fieldName, FALSE)>>


--------------------------------------------------------------------------
(* Pagination: offset, limit and fetch in any call order *)

MaxPaging == 3       \* most offset / limit / fetch calls made on the query in hand

\* one pagination call on the query in hand
Paging(method, q) ==
    /\ pc = "query"
    /\ Len(calls) < MaxPaging
    /\ query' = q
    /\ calls' = Append(calls, method)
    /\ static' = ReturnType(static, method)
    /\ UNCHANGED <<pc, tokens, sql, op, expr, types, params, picked, record, packed, heap, held, fromItem, tuples>>

PageOffset == \E n \in {0, 5} : Paging("offset", offset(query, n))
PageLimit == Paging("limit", limit(query, 2))
PageLimitAll == Paging("limitAll", limitAll(query))
PageFetch == \E ties \in {"", "WITH TIES"} : Paging("fetch", fetch(query, 3, ties))

NextPaging ==
    \/ Select
    \/ PageOffset
    \/ PageLimit
    \/ PageLimitAll
    \/ PageFetch
    \/ SerializeQuery

SpecPaging == InitQuery /\ [][NextPaging]_vars

\* the tokens of the query in hand before its pagination part
BeforePaging == subquerySerialize(make(query.from, query.tuple))

--------------------------------------------------------------------------
(* Grouping trees: groupBy, rollup, cube and groupingSets *)

PostDay == field("p", "day")
\* RollupArgs values: each element an expression or a list of expressions
RollupInputs ==
    { <<TreeExpr(PostId), TreeExpr(PostName)>>,
      <<TreeArray(<<PostId, PostName>>)>>,
      <<TreeArray(<<PostId>>), TreeExpr(PostName)>>,
      <<TreeExpr(PostId), TreeArray(<<PostName, PostDay>>)>>,
      <<TreeArray(<<PostId, PostName>>), TreeExpr(PostDay)>>,
      <<TreeExpr(PostId), TreeExpr(PostName), TreeExpr(PostDay)>> }
\* UnknownExpr[][] values: the sets of GROUPING SETS
SetInputs ==
    { <<TreeArray(<<PostId>>), TreeArray(<<PostName>>)>>,
      <<TreeArray(<<PostId, PostName>>)>>,
      <<TreeArray(<<PostId>>), TreeArray(<<>>)>>,
      <<TreeArray(<<>>), TreeArray(<<PostId>>)>> }
\* every GroupingTree a call below can leave in the state
GroupingInputs ==
    {rollup(a) : a \in RollupInputs} \cup {cube(a) : a \in RollupInputs}
        \cup {groupingSets(a) : a \in SetInputs}

GroupRollup == \E dims \in RollupInputs : Call("rollup", rollupBy(query, dims))
GroupCube == \E dims \in RollupInputs : Call("cube", cubeBy(query, dims))
GroupSets == \E sets \in SetInputs : Call("groupingSets", groupingSetsBy(query, sets))
GroupTree == \E dims \in GroupingInputs : Call("groupBy", groupBy(query, dims))

NextGrouping ==
    \/ Select
    \/ GroupRollup
    \/ GroupCube
    \/ GroupSets
    \/ GroupTree
    \/ SerializeQuery

SpecGrouping == InitQuery /\ [][NextGrouping]_vars

\* the expressions of a tree, left to right, whatever their grouping
RECURSIVE Leaves(_)
Leaves(tree) ==
    IF tree.type = "expr" THEN tree.expr
    ELSE Flatten([i \in 1..Len(tree.args) |-> Leaves(tree.args[i])])

\* the GROUP BY part of the token list in hand
GroupByTokens == SubSeq(tokens, Len(BeforePaging) + 1, Len(tokens))

IsComma(tok) == IsSpecial(tok, ",")

\* C25: serialising a grouping tree keeps its structure: composite
\* elements and grouping sets are parenthesised groups of their own, commas
\* separate elements one at a time with none leading or trailing, and two
\* trees over the same expressions grouped differently never give the same
\* tokens.
C25_GroupingStructure ==
    (pc = "tokens" /\ IsSet(query.state.groupBy)) =>
        LET own == query.state.groupBy[1]
        IN  /\ \A other \in GroupingInputs :
                  (other # own /\ other.type = own.type /\ Leaves(other) = Leaves(own))
                      => serializeGroupBy(other, query.state.groupByDistinct) # GroupByTokens
            /\ \A i \in 1..(Len(GroupByTokens) - 1) :
                  /\ IsComma(GroupByTokens[i]) =>
                        /\ ~IsComma(GroupByTokens[i + 1])
                        /\ ~IsSpecial(GroupByTokens[i + 1], ")")
                  /\ IsSpecial(GroupByTokens[i], "(") => ~IsComma(GroupByTokens[i + 1])


--------------------------------------------------------------------------
(* exists(subquery) *)

\* exists(subquery): new FuncExpr('EXISTS', [subquery.scalar()]); the
\* Error scalar() throws leaves exists
exists(subquery) ==
    LET s == scalar(subquery)
    IN  IF s.ok THEN [ok |-> TRUE, expr |-> FuncExpr("EXISTS", <<s.expr>>)]
        ELSE [ok |-> FALSE, expr |-> NoExpr]

\* the host calls exists(..) on the query it holds
Exists ==
    /\ pc = "query"
    /\ LET r == exists(query)
       IN  /\ expr' = r.expr
           /\ pc' = IF r.ok THEN "expr" ELSE "threw"
    /\ calls' = Append(calls, "exists")
    /\ UNCHANGED <<tokens, sql, op, types, params, picked, record, packed, query, static, heap, held, fromItem, tuples>>

NextExists ==
    \/ Select
    \/ CallWhere
    \/ CallUnion
    \/ CallOrderBy
    \/ CallLimit
    \/ Exists
    \/ SerializeExpr

SpecExists == InitQuery /\ [][NextExists]_vars

\* C26: exists(subquery) is built and serialised whatever the number of
\* projected columns: an EXISTS call around the parenthesised subquery,
\* never the scalar-subquery arity error.
C26_ExistsAnyArity ==
    (calls # <<>> /\ calls[Len(calls)] = "exists") =>
        /\ pc # "threw"
        /\ expr.node = "FuncExpr"
        /\ pc = "tokens" =>
              \E i \in 1..Len(tokens) :
                  /\ tokens[i].value = "EXISTS"
                  /\ SubSeq(tokens, i + 1, Len(tokens)) \in
                        { <<specialCharacter("(")>> \o subquerySerialize(query)
                              \o <<specialCharacter(")")>>,
                          <<specialCharacter("("), specialCharacter("(")>>
                              \o subquerySerialize(query)
                              \o <<specialCharacter(")"), specialCharacter(")")>> }


--------------------------------------------------------------------------
(* Order specs: asc / desc / using and the two order-list serializers *)

NullsOptions == {"", "NULLS FIRST", "NULLS LAST"}

InitOrder ==
    /\ pc = "start"
    /\ IdleLex /\ IdleOp /\ IdleExpr /\ IdleParams /\ IdleQuery

\* expr.asc(nulls?) / expr.desc(nulls?) / expr.using(op, nulls?), or the
\* bare expression resolveOrderArgs turns into {expr}
MakeOrder ==
    /\ pc = "expr"
    /\ \E nulls \in NullsOptions :
          \E arg \in {asc(expr, nulls), desc(expr, nulls), using(expr, "<", nulls),
                      OrderArg(expr, <<>>, "")} :
              calls' = <<[method |-> "order", arg |-> arg]>>
    /\ pc' = "order"
    /\ UNCHANGED <<tokens, sql, op, expr, types, params, picked, record, packed, query, static, heap, held, fromItem, tuples>>

\* the order list of an aggregate is serialized
SerializeAggregateOrder ==
    /\ pc = "order"
    /\ tokens' = serializeOrderBy(<<calls[1].arg>>)
    /\ calls' = Append(calls, [method |-> "serializeOrderBy"])
    /\ pc' = "tokens"
    /\ UNCHANGED <<sql, op, expr, types, params, picked, record, packed, query, static, heap, held, fromItem, tuples>>

\* an entry of a query's ORDER BY or of a window's order list is serialized
SerializeQueryOrder ==
    /\ pc = "order"
    /\ tokens' = serializeOrderArg(calls[1].arg)
    /\ calls' = Append(calls, [method |-> "serializeOrderArg"])
    /\ pc' = "tokens"
    /\ UNCHANGED <<sql, op, expr, types, params, picked, record, packed, query, static, heap, held, fromItem, tuples>>

NextOrder ==
    \/ MakeNumber
    \/ MakeField
    \/ MakeOrder
    \/ SerializeAggregateOrder
    \/ SerializeQueryOrder
    \/ Unlex

SpecOrder == InitOrder /\ [][NextOrder]_vars

\* expr [ASC | DESC | USING op] [NULLS FIRST | NULLS LAST]
DocumentedOrder(arg) ==
    exprSerialize(arg.expr)
        \o (IF ~IsSet(arg.order) THEN <<>>
            ELSE IF arg.order[1].key = "USING"
            THEN <<keyWord("USING"), identifier(arg.order[1].op, FALSE)>>
            ELSE <<keyWord(arg.order[1].key)>>)
        \o (IF arg.nulls = "" THEN <<>> ELSE <<keyWord(arg.nulls)>>)

NullsWords(toks) ==
    Cardinality({i \in 1..Len(toks) :
                    toks[i].value \in {"NULLS", "NULLS FIRST", "NULLS LAST"}})

\* C28: an order spec renders the same way in an aggregate's order list
\* and in a query-level or window order list, as expr [ASC | DESC | USING
\* op] [NULLS FIRST | NULLS LAST], with NULLS at most once.
C28_OrderSpecSameEverywhere ==
    (pc \in {"tokens", "rendered"} /\ calls # <<>> /\ calls[1].method = "order") =>
        /\ tokens = DocumentedOrder(calls[1].arg)
        /\ serializeOrderBy(<<calls[1].arg>>) = serializeOrderArg(calls[1].arg)
        /\ NullsWords(tokens) <= 1


--------------------------------------------------------------------------
(* Names the host supplies: projection aliases, subquery aliases,
   table-function names and aliases *)

AliasNames == {"id", "Total", "user group", "select"}

\* from.select(() => ({[name]: expr}))
SelectAs ==
    /\ pc = "start"
    /\ \E name \in AliasNames :
          /\ query' = make(Posts, <<[name |-> name, expr |-> PostId]>>)
          /\ calls' = <<[method |-> "select", names |-> <<name>>]>>
    /\ pc' = "query"
    /\ static' = StageType("SelectFrom", TRUE)
    /\ UNCHANGED <<tokens, sql, op, expr, types, params, picked, record, packed, heap, held, fromItem, tuples>>

\* query.as(alias)
SubqueryAs ==
    /\ pc = "query"
    /\ \E alias \in AliasNames :
          /\ fromItem' = subqueryAs(query, alias)
          /\ calls' = Append(calls, [method |-> "as", names |-> <<alias>>])
    /\ pc' = "from"
    /\ UNCHANGED <<tokens, sql, op, expr, types, params, picked, record, packed, query, static, heap, held, tuples>>

\* fromFunction(name, args)
MakeFromFunction ==
    /\ pc = "start"
    /\ \E name \in AliasNames :
          /\ fromItem' = fromFunction(name, <<One>>)
          /\ calls' = <<[method |-> "fromFunction", names |-> <<name>>]>>
    /\ pc' = "from"
    /\ UNCHANGED <<tokens, sql, op, expr, types, params, picked, record, packed, query, static, heap, held, tuples>>

\* fn.withOrdinality(): offered once, and not after as()
FunctionWithOrdinality ==
    /\ pc = "from"
    /\ fromItem.kind = "FromFunction"
    /\ ~fromItem.ordinality /\ ~IsSet(fromItem.realName)
    /\ fromItem' = withOrdinality(fromItem)
    /\ UNCHANGED <<pc, tokens, sql, op, expr, types, params, picked, record, packed, query, calls, static, heap, held, tuples>>

\* fn.as(alias): the result is a From, which offers no further as()
FunctionAs ==
    /\ pc = "from"
    /\ fromItem.kind = "FromFunction"
    /\ ~IsSet(fromItem.realName)
    /\ \E alias \in AliasNames :
          /\ fromItem' = fromFunctionAs(fromItem, alias)
          /\ calls' = Append(calls, [method |-> "as", names |-> <<alias>>])
    /\ UNCHANGED <<pc, tokens, sql, op, expr, types, params, picked, record, packed, query, static, heap, held, tuples>>

NextAlias ==
    \/ SelectAs
    \/ SubqueryAs
    \/ MakeFromFunction
    \/ FunctionWithOrdinality
    \/ FunctionAs
    \/ SerializeQuery
    \/ SerializeFrom
    \/ Unlex

SpecAlias == InitQuery /\ [][NextAlias]_vars

\* the names the host gave, in the order their tokens are emitted
GivenNames == [i \in 1..Len(calls) |-> calls[i].names[1]]

\* the tokens that carry them: the function name at the head of the list
\* and every identifier that follows AS, but for the alias of the table
\* named right after FROM
NameTokens(toks) ==
    LET at == {i \in 1..Len(toks) :
                  /\ toks[i].type = "Identifier"
                  /\ \/ i = 1
                     \/ /\ toks[i - 1] = keyWord("AS")
                        /\ ~(i > 3 /\ toks[i - 3] = keyWord("FROM"))}
        RECURSIVE From(_)
        From(i) == IF i > Len(toks) THEN <<>>
                   ELSE (IF i \in at THEN <<toks[i]>> ELSE <<>>) \o From(i + 1)
    IN  From(1)

\* C29: a name used as projection alias, subquery alias, table-function
\* name or table-function alias is rendered as the identifier rule applied
\* once to it, never quoted twice.
C29_QuotedOnce ==
    pc \in {"tokens", "rendered"} =>
        LET named == NameTokens(tokens)
        IN  /\ Len(named) = Len(GivenNames)
            /\ \A i \in 1..Len(named) :
                  unlex1(named[i]) = Returned(quoteIdentifier(GivenNames[i], FALSE))


--------------------------------------------------------------------------
(* DISTINCT and DISTINCT ON *)

\* what the SELECT list of a query with this distinct setting opens with
DocumentedDistinct(d) ==
    <<keyWord("SELECT"), keyWord("DISTINCT")>>
        \o (IF d.type = "on"
            THEN <<keyWord("ON"), specialCharacter("(")>>
                    \o commaSeparate(serializeArgs(d.key))
                    \o <<specialCharacter(")")>>
            ELSE <<>>)

\* C30: distinctOn(keys) renders SELECT DISTINCT ON (k1, .., kn) with the
\* key list inside one pair of parentheses, distinct() renders SELECT
\* DISTINCT with no key list; the projection follows.
C30_DistinctOnParenthesised ==
    (pc = "tokens" /\ IsSet(query.state.distinct)) =>
        LET head == DocumentedDistinct(query.state.distinct[1])
                        \o serializeProjection(query.tuple)
        IN  /\ Len(tokens) >= Len(head)
            /\ SubSeq(tokens, 1, Len(head)) = head

==========================================================================
